---------------------------- MODULE Spec2Model ----------------------------
(***************************************************************************)
(* Model of the compliment selection engine of Shipmas Day 1:              *)
(*   - the SplitMix64 generator and selectComplimentFromCandidates         *)
(*     (src/lib/entropy.ts),                                               *)
(*   - the pool-based POST route (src/app/api/compliment/route.ts),        *)
(*   - the client's seen-hash store (src/lib/entropy.ts, src/app/page.tsx),*)
(*   - fetchPool (src/README.md, lines 265-300).                           *)
(*                                                                         *)
(* Representation choices.                                                 *)
(*   A 64-bit BigInt is a sequence of 8 bytes, least significant first, so *)
(*   that all arithmetic is exact modulo 2^64.                             *)
(*   A text is a sequence of tokens; the tokens " " and "\t" are white     *)
(*   space, every other token is a visible word.                           *)
(*   A SHA-256 digest of a text is the record [sha256 |-> text]: the       *)
(*   digest is treated as collision free.  The digest of a fingerprint is  *)
(*   given by its first 16 hex digits (the only part the code reads).      *)
(***************************************************************************)
EXTENDS Integers, Sequences, FiniteSets, TLC

VARIABLES
  \* ---- selectComplimentFromCandidates called directly (SpecSelect)
  selArgs,        \* arguments of the calls: [hash, candidates, avoidHashes]
  selOuts,        \* outcomes of the calls made so far with selArgs
  rngState,       \* state left in the SplitMix64 instance of the last call
  \* ---- POST handler of the pool-based route (Spec, SpecClient)
  pc,             \* position of the handler
  body,           \* the request body being handled
  signals,        \* const signals: the clamped values
  avoidHashesSet, \* new Set(avoidHashes)
  nonceHash,      \* digest prefix of the fingerprint built with sessionNonce
  rounds,         \* let rounds
  fetchedTexts,   \* result of the fetchPool call of the current round
  selectedCompliment,
  lastRound,      \* how the last round of the while loop ended
  usedFallback,   \* the embedded list was consulted for this request
  response,       \* the response sent
  \* ---- client (SpecClient)
  seen,           \* localStorage 'shipmas_seen_hashes'
  apiCursor,      \* next compliment the remote API serves
  addArg,         \* argument of the last addSeenComplimentHash call
  minted,         \* number of hashes the store's caller has come up with
  \* ---- fetchPool (SpecPool)
  poolArgs,       \* [count, concurrency]
  index,          \* let index
  results,        \* results array: the slots assigned so far
  errors,         \* errors.length
  workers,        \* the worker() calls: [at, currentIndex]
  poolReturn,     \* the promise fetchPool returned
  calls,          \* the slots fetchFn was called for, oldest call first
  \* ---- one SplitMix64 instance drawn from repeatedly (SpecRng)
  prng,           \* this.state
  lastDraw,       \* what the last call returned
  drawCount,      \* number of calls made on the instance
  \* ---- buildFingerprint applied to two inputs (SpecFingerprint)
  fpArgs,         \* the two inputs: <<first, second>>
  fpOuts,         \* the fingerprint strings built from them, or <<>>
  \* ---- generateCompliment (SpecGenerator)
  genArgs,        \* [m, c, i, keyHex]: normalised signals, key of the call
  genOut,         \* the phrases picked, or NotRun
  \* ---- normalization applied to two texts (SpecNormalize)
  normArgs,       \* the two texts: <<first, second>>
  normOuts,       \* what the selector and the route make of them, or <<>>
  \* ---- the database-backed route (SpecIssued)
  issued,         \* the rows of the issued table of one user, oldest first
  requests,       \* the concurrent requests of that user
  \* ---- one mounted LoadingGift (SpecGift)
  signalsRef,     \* signalsRef.current
  loading,        \* the effect's closure, React state and timers
  completed,      \* the arguments of the onComplete calls, oldest first
  stoppedAt,      \* the signals when tracking stopped, or <<>>
  \* ---- the template-generation route (SpecTemplate)
  template,       \* the request being answered and the handler's locals
  \* ---- the rule-based caption (SpecReflection)
  reflection      \* the signals and the caption returned for them

selectVars == <<selArgs, selOuts, rngState>>
routeVars  == <<pc, body, signals, avoidHashesSet, nonceHash, rounds,
                fetchedTexts, selectedCompliment, lastRound, usedFallback,
                response>>
clientVars == <<seen, apiCursor, addArg, minted>>
poolVars   ==
  <<poolArgs, index, results, errors, workers, poolReturn, calls>>
rngVars    == <<prng, lastDraw, drawCount>>
fingerprintVars == <<fpArgs, fpOuts>>
generatorVars == <<genArgs, genOut>>
normalizeVars == <<normArgs, normOuts>>
issuedVars == <<issued, requests>>
giftVars == <<signalsRef, loading, completed, stoppedAt>>
lateVars == <<template, reflection>>
otherVars ==
  <<fingerprintVars, generatorVars, normalizeVars, issuedVars, giftVars, lateVars>>
coreVars == <<selectVars, routeVars, clientVars, poolVars, rngVars>>
vars == <<selectVars, routeVars, clientVars, poolVars, rngVars, otherVars>>

---------------------------------------------------------------------------
\* 64-bit unsigned arithmetic on byte sequences (BigInt & 0xffffffffffffffffn)

Byte == 0 .. 255

Pow2(n) == 2 ^ n

\* hex literal (16 hex digits, most significant first) -> 8 bytes, LSB first
FromHex(h) == [i \in 1 .. 8 |-> h[17 - 2 * i] * 16 + h[18 - 2 * i]]

RECURSIVE AddCarry(_, _, _, _)
AddCarry(a, b, i, carry) ==
  IF i > 8 THEN <<>>
  ELSE LET s == a[i] + b[i] + carry
       IN  <<s % 256>> \o AddCarry(a, b, i + 1, s \div 256)

\* (a + b) & 0xffffffffffffffff
Add64(a, b) == AddCarry(a, b, 1, 0)

RECURSIVE ColumnSum(_, _, _, _)
ColumnSum(a, b, k, i) ==
  IF i > k THEN 0 ELSE a[i] * b[k + 1 - i] + ColumnSum(a, b, k, i + 1)

RECURSIVE MulCarry(_, _, _, _)
MulCarry(a, b, k, carry) ==
  IF k > 8 THEN <<>>
  ELSE LET s == ColumnSum(a, b, k, 1) + carry
       IN  <<s % 256>> \o MulCarry(a, b, k + 1, s \div 256)

\* (a * b) & 0xffffffffffffffff
Mul64(a, b) == MulCarry(a, b, 1, 0)

\* bit i (0 = least significant) of z; 0 beyond bit 63
Bit(z, i) == IF i > 63 THEN 0 ELSE (z[(i \div 8) + 1] \div Pow2(i % 8)) % 2

\* z ^ (z >> s)
XorShr(z, s) ==
  [j \in 1 .. 8 |->
     LET b(k) == (Bit(z, 8 * (j - 1) + k) + Bit(z, 8 * (j - 1) + k + s)) % 2
     IN  b(0) + 2 * b(1) + 4 * b(2) + 8 * b(3)
         + 16 * b(4) + 32 * b(5) + 64 * b(6) + 128 * b(7)]

\* 0x9e3779b97f4a7c15
Gamma == FromHex(<<9,14,3,7,7,9,11,9,7,15,4,10,7,12,1,5>>)
\* 0xbf58476d1ce4e5b9
MixA == FromHex(<<11,15,5,8,4,7,6,13,1,12,14,4,14,5,11,9>>)
\* 0x94d049bb133111eb
MixB == FromHex(<<9,4,13,0,4,9,11,11,1,3,3,1,1,1,14,11>>)

\* this.state = (this.state + 0x9e3779b97f4a7c15n) & 0xffffffffffffffffn
Advance(state) == Add64(state, Gamma)

\* the three mixing lines of next()
Mix(state) ==
  LET z1 == Mul64(XorShr(state, 30), MixA)
      z2 == Mul64(XorShr(z1, 27), MixB)
  IN  XorShr(z2, 31)

\* BigInt('0x' + hash.substring(0, 16))
hashToSeed(hash) == FromHex(hash)

\* Fingerprint digests (first 16 hex digits).  SHA-256 of the fingerprint of
\* signals (0,0,0), user "u1", env 1920x1080:1:0: without nonce, with nonce
\* "n1" and with nonce "n2".
HashScenarioA == <<5,2,15,1,9,2,10,3,12,7,9,13,12,3,15,4>>
HashNonce1 == <<9,4,13,11,11,12,0,6,10,13,0,1,2,1,8,9>>
HashNonce2 == <<15,15,15,13,1,15,11,12,8,1,2,7,11,11,8,8>>
\* Digests chosen for the first outputs of the generator they seed:
\* 0, 2^31, 2^32 - 1, 2^32, and two whose first two outputs are below 2^32.
HashDrawZero == <<6,1,12,8,8,6,4,6,8,0,11,5,8,3,14,11>>
HashDrawHalf == <<11,1,14,1,11,8,15,8,6,14,1,11,4,14,6,7>>
HashDrawTop == <<2,5,1,1,4,14,13,5,3,3,2,7,3,4,5,10>>
HashDrawOne == <<0,2,9,14,11,10,14,5,5,2,3,15,4,3,6,15>>
HashDrawTwice == <<5,1,11,12,3,10,15,12,2,11,14,5,15,5,15,13>>
HashDrawTwiceB == <<1,0,8,14,13,8,9,14,1,13,10,6,2,10,9,12>>

FingerprintHashes ==
  {HashScenarioA, HashNonce1, HashDrawZero, HashDrawHalf, HashDrawTop,
   HashDrawOne, HashDrawTwice, HashDrawTwiceB}

\* Bound: number of draws made on one generator in SpecRng
MaxDraws == 4

RECURSIVE AdvanceBy(_, _)
AdvanceBy(state, k) == IF k = 0 THEN state ELSE AdvanceBy(Advance(state), k - 1)

\* Mix tabulated once for the generator states the digests above lead to
MixTable ==
  LET known == {AdvanceBy(hashToSeed(h), k) :
                  h \in FingerprintHashes, k \in 1 .. MaxDraws}
  IN  [s \in known |-> Mix(s)]

\* the mixing lines of next(), read from the table where it has the state
Mixed(state) ==
  IF state \in DOMAIN MixTable THEN MixTable[state] ELSE Mix(state)

\* Number(z) / 0x100000000: the binary point moves 32 places, so the four
\* high bytes of z are the integer part and the four low bytes the fraction.
\* (Number(z) rounds z to 53 significant bits when z >= 2^53; the rounding
\* never moves a value across 1, and the model keeps the exact quotient.)
Scale(z) == [whole |-> SubSeq(z, 5, 8), frac |-> SubSeq(z, 1, 4)]

\* v < 1 for a value returned by next()
LessThanOne(v) == \A i \in 1 .. 4 : v.whole[i] = 0

\* SplitMix64.next(): the new state and the number returned
next(state) ==
  LET s == Advance(state)
  IN  [state |-> s, value |-> Scale(Mixed(s))]

RECURSIVE CarryDigits(_)
CarryDigits(c) == IF c = 0 THEN <<>> ELSE <<c % 256>> \o CarryDigits(c \div 256)

RECURSIVE TimesCarry(_, _, _, _)
TimesCarry(d, m, i, carry) ==
  IF i > Len(d) THEN CarryDigits(carry)
  ELSE LET s == d[i] * m + carry
       IN  <<s % 256>> \o TimesCarry(d, m, i + 1, s \div 256)

\* Math.floor(v * max) as base-256 digits, least significant first
FloorTimes(v, max) ==
  LET product == TimesCarry(v.frac \o v.whole, max, 1, 0)
  IN  SubSeq(product, 5, Len(product))

\* SplitMix64.nextInt(max)
nextInt(state, max) ==
  LET r == next(state)
  IN  [state |-> r.state, value |-> FloorTimes(r.value, max)]

\* a nextDouble that draws twice
nextDoubleTwice(state) == next(next(state).state)

\* SplitMix64.nextDouble()
nextDouble(state) == next(state)

\* the digits denote a number below 2^24
Small(d) == \A i \in 4 .. Len(d) : d[i] = 0

Digit(d, i) == IF i <= Len(d) THEN d[i] ELSE 0

ToNat(d) == Digit(d, 1) + 256 * Digit(d, 2) + 65536 * Digit(d, 3)

\* 0 <= number < len, i.e. arr[number] is an element of an array of length len
InBounds(d, len) == Small(d) /\ ToNat(d) < len

---------------------------------------------------------------------------
\* Texts, normalization and hashing

IsSpace(tok) == tok \in {" ", "\t"}

RECURSIVE TrimLeft(_)
TrimLeft(t) ==
  IF t = <<>> THEN <<>>
  ELSE IF IsSpace(Head(t)) THEN TrimLeft(Tail(t)) ELSE t

RECURSIVE TrimRight(_)
TrimRight(t) ==
  IF t = <<>> THEN <<>>
  ELSE IF IsSpace(t[Len(t)]) THEN TrimRight(SubSeq(t, 1, Len(t) - 1)) ELSE t

\* String.prototype.trim
trim(t) == TrimRight(TrimLeft(t))

\* .replace(/\s+/g, ' ')
RECURSIVE CollapseSpaces(_)
CollapseSpaces(t) ==
  IF t = <<>> THEN <<>>
  ELSE IF IsSpace(Head(t)) THEN <<" ">> \o CollapseSpaces(TrimLeft(t))
  ELSE <<Head(t)>> \o CollapseSpaces(Tail(t))

\* text.trim() alone
TrimOnly(t) == trim(t)

\* text.trim().replace(/\s+/g, ' ')
normalizeCompliment(t) == CollapseSpaces(trim(t))

\* crypto.createHash('sha256').update(text).digest('hex')
hashFingerprint(t) == [sha256 |-> t]

hashString(t) == [sha256 |-> t]

---------------------------------------------------------------------------
\* Inputs

\* Bounds of the model
MaxCandidates == 3
MaxCalls == 2
MaxInt == 4

\* const maxAttempts = Math.min(candidates.length, 50)
RetryCap == 50

\* Candidate texts: "x", "y", " x\t" and "x\t y"
TextX == <<"x">>
TextY == <<"y">>
TextXPadded == <<" ", "x", "\t">>
TextXY == <<"x", "\t", " ", "y">>
RawTexts == {TextX, TextY, TextXPadded, TextXY}

SeqsUpTo(S, n) == UNION {[1 .. k -> S] : k \in 0 .. n}

AvoidSets == SUBSET {hashFingerprint(normalizeCompliment(t)) : t \in RawTexts}

SelectInputs ==
  [hash : FingerprintHashes,
   candidates : SeqsUpTo(RawTexts, MaxCandidates),
   avoidHashes : AvoidSets]

NoRng == <<>>
\* undefined, where a text is expected
NoText == <<"undefined">>
\* let selectedCompliment = null
NoCompliment == [complimentText |-> NoText,
                 complimentHash |-> hashFingerprint(NoText)]
NoResponse == [status |-> 0, id |-> hashFingerprint(NoText), text |-> NoText]

---------------------------------------------------------------------------
\* selectComplimentFromCandidates

Min(a, b) == IF a < b THEN a ELSE b

\* a shared generator: a call continues from the state the last call left
SplitMix64Shared(seed) == IF rngState = NoRng THEN seed ELSE rngState

\* new SplitMix64(seed)
SplitMix64(seed) == seed

Returned(text, hash, fingerprintHash, rng, draws) ==
  [kind |-> "return", error |-> "none", complimentText |-> text,
   complimentHash |-> hash, fingerprintHash |-> fingerprintHash,
   rng |-> rng, draws |-> draws]

Thrown(error, fingerprintHash, rng, draws) ==
  [kind |-> "throw", error |-> error, complimentText |-> NoText,
   complimentHash |-> hashFingerprint(NoText),
   fingerprintHash |-> fingerprintHash, rng |-> rng, draws |-> draws]

\* candidates.map(text => ({ text: normalized, hash: hashFingerprint(normalized) }))
candidateHashes(candidates) ==
  [i \in 1 .. Len(candidates) |->
     [text |-> normalizeCompliment(candidates[i]),
      hash |-> hashFingerprint(normalizeCompliment(candidates[i]))]]

\* the filter without the avoid-set test
RECURSIVE FilterIgnoringAvoid(_, _, _, _)
FilterIgnoringAvoid(ch, i, seenInBatch, avoidHashes) ==
  IF i > Len(ch) THEN <<>>
  ELSE IF ch[i].hash \in seenInBatch
       THEN FilterIgnoringAvoid(ch, i + 1, seenInBatch, avoidHashes)
       ELSE <<ch[i]>> \o FilterIgnoringAvoid(ch, i + 1,
                            seenInBatch \cup {ch[i].hash}, avoidHashes)

\* the filter without the seenInBatch test
RECURSIVE FilterKeepingRepeats(_, _, _, _)
FilterKeepingRepeats(ch, i, seenInBatch, avoidHashes) ==
  IF i > Len(ch) THEN <<>>
  ELSE IF ch[i].hash \in avoidHashes
       THEN FilterKeepingRepeats(ch, i + 1, seenInBatch, avoidHashes)
       ELSE <<ch[i]>> \o FilterKeepingRepeats(ch, i + 1, seenInBatch,
                                              avoidHashes)

\* candidateHashes.filter(...) with the seenInBatch set
RECURSIVE FilterValid(_, _, _, _)
FilterValid(ch, i, seenInBatch, avoidHashes) ==
  IF i > Len(ch) THEN <<>>
  ELSE IF ch[i].hash \in seenInBatch \/ ch[i].hash \in avoidHashes
       THEN FilterValid(ch, i + 1, seenInBatch, avoidHashes)
       ELSE <<ch[i]>> \o FilterValid(ch, i + 1,
                            seenInBatch \cup {ch[i].hash}, avoidHashes)

validCandidates(candidates, avoidHashes) ==
  FilterValid(candidateHashes(candidates), 1, {}, avoidHashes)

\* an exhaustion branch whose last resort is the last candidate
RetryLoopLastCandidate(rng, attempts, draws, candidates, avoidHashes, hash) ==
  LET fallbackText == normalizeCompliment(candidates[Len(candidates)])
  IN  Returned(fallbackText, hashFingerprint(fallbackText), hash, rng, draws)

\* the while loop of the exhaustion branch and the return that follows it
RECURSIVE RetryLoop(_, _, _, _, _, _)
RetryLoop(rng, attempts, draws, candidates, avoidHashes, hash) ==
  IF attempts < Min(Len(candidates), RetryCap)
  THEN LET d == nextInt(rng, Len(candidates))
           drawn == Append(draws, [max |-> Len(candidates), value |-> d.value])
       IN  IF ~InBounds(d.value, Len(candidates))
           THEN \* candidates[candidateIndex] is undefined: .trim() throws
                Thrown("TypeError", hash, d.state, drawn)
           ELSE LET candidateText ==
                      normalizeCompliment(candidates[ToNat(d.value) + 1])
                    candidateHash == hashFingerprint(candidateText)
                IN  IF candidateHash \notin avoidHashes
                    THEN Returned(candidateText, candidateHash, hash,
                                  d.state, drawn)
                    ELSE RetryLoop(d.state, attempts + 1, drawn,
                                   candidates, avoidHashes, hash)
  ELSE IF Len(candidates) = 0
       THEN \* candidates[0] is undefined: .trim() throws
            Thrown("TypeError", hash, rng, draws)
       ELSE LET fallbackText == normalizeCompliment(candidates[1])
            IN  Returned(fallbackText, hashFingerprint(fallbackText), hash,
                         rng, draws)

\* selectComplimentFromCandidates after its empty-pool check
SelectFromPool(hash, candidates, avoidHashes) ==
  LET rng == SplitMix64(hashToSeed(hash))
      valid == validCandidates(candidates, avoidHashes)
  IN  IF Len(valid) = 0
      THEN RetryLoop(rng, 0, <<>>, candidates, avoidHashes, hash)
      ELSE LET d == nextInt(rng, Len(valid))
               drawn == <<[max |-> Len(valid), value |-> d.value]>>
           IN  IF ~InBounds(d.value, Len(valid))
               THEN \* selected is undefined: selected.text throws
                    Thrown("TypeError", hash, d.state, drawn)
               ELSE LET selected == valid[ToNat(d.value) + 1]
                    IN  Returned(selected.text, selected.hash, hash,
                                 d.state, drawn)

\* the selector without its empty-pool check
SelectUnchecked(hash, candidates, avoidHashes) ==
  SelectFromPool(hash, candidates, avoidHashes)

\* selectComplimentFromCandidates(signals, userKey, env, candidates,
\* avoidHashes, sessionNonce); hash is the digest of the fingerprint of
\* (signals, userKey, env, sessionNonce)
selectComplimentFromCandidates(hash, candidates, avoidHashes) ==
  IF Len(candidates) = 0
  THEN Thrown("No compliments available", hash, NoRng, <<>>)
  ELSE SelectFromPool(hash, candidates, avoidHashes)

\* as if the batch's own hashes were recorded in avoidHashes instead of in
\* seenInBatch
ArgsAfterSelectMarking(candidates, avoidHashes) ==
  [candidates |-> candidates,
   avoidHashes |->
     avoidHashes \cup
       {candidateHashes(candidates)[i].hash : i \in 1 .. Len(candidates)}]

\* the caller's array and Set after the call: the function reads them with
\* length, map, index and has; filter and map build new arrays, and add is
\* called on its own seenInBatch only
ArgsAfterSelect(candidates, avoidHashes) ==
  [candidates |-> candidates, avoidHashes |-> avoidHashes]

---------------------------------------------------------------------------
\* The request body and its validation (route.ts, lines 68-116)

\* A JSON value as the handler sees it: its typeof and, for a number, its
\* value.  "string" stands for a string that is not numeric.
JsNumber(n) == [t |-> "number", n |-> n]
JsUndefined == [t |-> "undefined", n |-> 0]
JsString == [t |-> "string", n |-> 0]
JsNull == [t |-> "object", n |-> 0]

\* A JavaScript number: NaN or an integer
NaN == [nan |-> TRUE, n |-> 0]
Num(n) == [nan |-> FALSE, n |-> n]

\* ToNumber, as Math.min applies it to its arguments
ToNumber(v) ==
  IF v.t = "number" THEN Num(v.n)
  ELSE IF v = JsNull THEN Num(0)
  ELSE NaN

MathMin(a, b) ==
  IF a.nan \/ b.nan THEN NaN ELSE IF a.n < b.n THEN a ELSE b

MathMax(a, b) ==
  IF a.nan \/ b.nan THEN NaN ELSE IF a.n > b.n THEN a ELSE b

\* Math.max(0, Math.min(value, cap))
Clamp(v, cap) == MathMax(Num(0), MathMin(ToNumber(v), Num(cap)))

MaxPixelsMoved == 1000000
MaxClicks == 10000
MaxIdleMs == 60000

ClampedSignals(b) ==
  [pixelsMoved |-> Clamp(b.pixelsMoved, MaxPixelsMoved),
   clicks |-> Clamp(b.clicks, MaxClicks),
   idleMs |-> Clamp(b.idleMs, MaxIdleMs)]

NoSignals == [pixelsMoved |-> Num(0), clicks |-> Num(0), idleMs |-> Num(0)]

\* typeof of a clamped value: Math.max always yields a number
TypeOfNumber(x) == "number"

\* the negation of the if-condition of lines 92-103
PassesValidation(b) ==
  /\ TypeOfNumber(Clamp(b.pixelsMoved, MaxPixelsMoved)) = "number"
  /\ TypeOfNumber(Clamp(b.clicks, MaxClicks)) = "number"
  /\ TypeOfNumber(Clamp(b.idleMs, MaxIdleMs)) = "number"
  /\ b.userKey = "string"
  /\ b.env.t = "object"
  /\ b.env.w = "number" /\ b.env.h = "number"
  /\ b.env.dpr = "number" /\ b.env.tzOffset = "number"
  /\ b.avoidHashes.t \in {"array", "undefined"}

\* avoidHashes = [] when the field is absent; new Set(avoidHashes)
AvoidSetOf(b) == IF b.avoidHashes.t = "array" THEN b.avoidHashes.items ELSE {}

\* The embedded list of lib/fallbackCompliments.ts: its second entry carries
\* a doubled space, which normalizeCompliment collapses
fallbackCompliments == << <<"f">>, <<"g", " ", " ", "h">> >>

maxRounds == 3
batchSize == 18
concurrency == 5

\* Bound: number of the batchSize requests of one round that succeed
MaxFetched == 2

\* What the remote API answers to one request: an error (network failure,
\* non-2xx status, abort after 5 s) or a body carrying a text
ApiTexts == {<<>>, TextX, TextY, TextXY, <<"\t">>}
ApiReplies ==
  {[ok |-> FALSE, text |-> <<>>]} \cup {[ok |-> TRUE, text |-> t] : t \in ApiTexts}

\* fetchCompliment(): the text returned, or NoText when it throws
fetchCompliment(reply) ==
  IF ~reply.ok THEN NoText
  ELSE IF reply.text = <<>> THEN NoText
  ELSE trim(reply.text)

\* results.filter(r => r !== undefined)
RECURSIVE FilterDefined(_)
FilterDefined(arr) ==
  IF arr = <<>> THEN <<>>
  ELSE IF Head(arr) = NoText THEN FilterDefined(Tail(arr))
  ELSE <<Head(arr)>> \o FilterDefined(Tail(arr))

\* fetchedTexts.map(normalizeCompliment).filter(text => text.length > 0)
RECURSIVE NormalizedNonEmpty(_)
NormalizedNonEmpty(texts) ==
  IF texts = <<>> THEN <<>>
  ELSE IF normalizeCompliment(Head(texts)) = <<>>
       THEN NormalizedNonEmpty(Tail(texts))
       ELSE <<normalizeCompliment(Head(texts))>>
              \o NormalizedNonEmpty(Tail(texts))

\* fallbackCompliments.filter(text => !avoidHashesSet.has(hash(normalized)))
RECURSIVE FilterAvailable(_, _)
FilterAvailable(list, avoid) ==
  IF list = <<>> THEN <<>>
  ELSE IF hashString(normalizeCompliment(Head(list))) \in avoid
       THEN FilterAvailable(Tail(list), avoid)
       ELSE <<Head(list)>> \o FilterAvailable(Tail(list), avoid)

\* fallbackCompliments.map(normalizeCompliment)
MapNormalize(list) == [i \in 1 .. Len(list) |-> normalizeCompliment(list[i])]

\* while (!selectedCompliment && rounds < maxRounds), one round too many
LoopConditionOffByOne(selected, r) == selected = NoCompliment /\ r <= maxRounds

\* while (!selectedCompliment && rounds < maxRounds)
LoopCondition(selected, r) == selected = NoCompliment /\ r < maxRounds

\* the double check of line 171, left out
AcceptsUnchecked(result, avoid) == TRUE

\* if (!avoidHashesSet.has(result.complimentHash))
Accepts(result, avoid) == result.complimentHash \notin avoid

\* a route that answers 500 instead of repeating a compliment
ComplimentOrExhausted(selected) ==
  IF selected.complimentHash \in avoidHashesSet
  THEN [status |-> 500, id |-> hashFingerprint(NoText), text |-> NoText]
  ELSE [status |-> 200, id |-> selected.complimentHash,
        text |-> selected.complimentText]

\* NextResponse.json({ id: ..., text: ... })
ComplimentResponse(selected) ==
  [status |-> 200, id |-> selected.complimentHash,
   text |-> selected.complimentText]

\* NextResponse.json({ error: 'Invalid request body' }, { status: 400 })
InvalidResponse == [status |-> 400, id |-> hashFingerprint(NoText), text |-> NoText]

---------------------------------------------------------------------------
\* Values of the variables a specification does not use

NoArgs == [hash |-> HashScenarioA, candidates |-> <<>>, avoidHashes |-> {}]
NoDraw == [op |-> "none", max |-> 0, real |-> Scale(hashToSeed(HashDrawZero)),
           int |-> <<>>]
NoBody ==
  [json |-> "none", pixelsMoved |-> JsUndefined, clicks |-> JsUndefined,
   idleMs |-> JsUndefined, userKey |-> "undefined",
   env |-> [t |-> "undefined", w |-> "undefined", h |-> "undefined",
            dpr |-> "undefined", tzOffset |-> "undefined"],
   avoidHashes |-> [t |-> "undefined", items |-> {}]]
NotCalled == [state |-> "not called", value |-> <<>>]

SelectIdle == selArgs = NoArgs /\ selOuts = <<>> /\ rngState = NoRng
RouteIdle ==
  /\ pc = "idle" /\ body = NoBody /\ signals = NoSignals
  /\ avoidHashesSet = {} /\ nonceHash = HashScenarioA /\ rounds = 0
  /\ fetchedTexts = <<>> /\ selectedCompliment = NoCompliment
  /\ lastRound = "none" /\ usedFallback = FALSE /\ response = NoResponse
NoHash == hashFingerprint(NoText)
ClientIdle == seen = <<>> /\ apiCursor = 0 /\ addArg = NoHash /\ minted = 0
PoolIdle ==
  /\ poolArgs = [count |-> 0, concurrency |-> 0] /\ index = 0
  /\ results = <<>> /\ errors = 0 /\ workers = <<>> /\ poolReturn = NotCalled
  /\ calls = <<>>
RngIdle == prng = NoRng /\ lastDraw = NoDraw /\ drawCount = 0
FingerprintIdle == fpArgs = <<>> /\ fpOuts = <<>>
NotRun == [opener |-> 0, trait |-> 0, evidence |-> 0, closer |-> 0]
GeneratorIdle ==
  genArgs = [m |-> 0, c |-> 0, i |-> 0, keyHex |-> HashScenarioA]
    /\ genOut = NotRun
NormalizeIdle == normArgs = <<>> /\ normOuts = <<>>
IssuedIdle == issued = <<>> /\ requests = <<>>
TemplateIdle == template = <<>>
ReflectionIdle == reflection = <<>>
LateIdle == TemplateIdle /\ ReflectionIdle
GiftIdle ==
  signalsRef = <<>> /\ loading = <<>> /\ completed = <<>> /\ stoppedAt = <<>>
OtherIdle ==
  /\ FingerprintIdle /\ GeneratorIdle /\ NormalizeIdle /\ IssuedIdle
  /\ GiftIdle /\ LateIdle

---------------------------------------------------------------------------
\* SpecSelect: selectComplimentFromCandidates called MaxCalls times with the
\* same arguments

InitSelect ==
  /\ selArgs \in SelectInputs
  /\ selOuts = <<>>
  /\ rngState = NoRng
  /\ RouteIdle /\ ClientIdle /\ PoolIdle /\ RngIdle /\ OtherIdle

CallSelect ==
  /\ Len(selOuts) < MaxCalls
  /\ LET out == selectComplimentFromCandidates(selArgs.hash,
                   selArgs.candidates, selArgs.avoidHashes)
     IN  /\ selOuts' = Append(selOuts, out)
         /\ rngState' = IF out.rng = NoRng THEN rngState ELSE out.rng
  /\ UNCHANGED <<selArgs, routeVars, clientVars, poolVars, rngVars, otherVars>>

NextSelect == CallSelect

SpecSelect == InitSelect /\ [][NextSelect]_vars

---------------------------------------------------------------------------
\* SpecRng: a SplitMix64 instance and the calls made on it

InitRng ==
  /\ prng \in {SplitMix64(hashToSeed(h)) : h \in FingerprintHashes}
  /\ lastDraw = NoDraw
  /\ drawCount = 0
  /\ SelectIdle /\ RouteIdle /\ ClientIdle /\ PoolIdle /\ OtherIdle

DrawNext ==
  /\ drawCount < MaxDraws
  /\ LET r == next(prng)
     IN  /\ prng' = r.state
         /\ lastDraw' = [op |-> "next", max |-> 0, real |-> r.value,
                         int |-> <<>>]
  /\ drawCount' = drawCount + 1
  /\ UNCHANGED <<selectVars, routeVars, clientVars, poolVars, otherVars>>

DrawNextDouble ==
  /\ drawCount < MaxDraws
  /\ LET r == nextDouble(prng)
     IN  /\ prng' = r.state
         /\ lastDraw' = [op |-> "nextDouble", max |-> 0, real |-> r.value,
                         int |-> <<>>]
  /\ drawCount' = drawCount + 1
  /\ UNCHANGED <<selectVars, routeVars, clientVars, poolVars, otherVars>>

DrawNextInt ==
  /\ drawCount < MaxDraws
  /\ \E max \in 1 .. MaxInt :
       LET r == nextInt(prng, max)
       IN  /\ prng' = r.state
           /\ lastDraw' = [op |-> "nextInt", max |-> max,
                           real |-> next(prng).value, int |-> r.value]
  /\ drawCount' = drawCount + 1
  /\ UNCHANGED <<selectVars, routeVars, clientVars, poolVars, otherVars>>

NextRng == DrawNext \/ DrawNextDouble \/ DrawNextInt

SpecRng == InitRng /\ [][NextRng]_vars

---------------------------------------------------------------------------
\* Spec: the POST handler of the pool-based route, one request

OkEnv == [t |-> "object", w |-> "number", h |-> "number", dpr |-> "number",
          tzOffset |-> "number"]

RequestBody(pixelsMoved, clicks, idleMs, userKey, env, avoidHashes) ==
  [json |-> "ok", pixelsMoved |-> pixelsMoved, clicks |-> clicks,
   idleMs |-> idleMs, userKey |-> userKey, env |-> env,
   avoidHashes |-> avoidHashes]

\* hashes a client can have recorded
HashUniverse ==
  {hashString(normalizeCompliment(t)) : t \in {TextX, TextY, TextXY}}
    \cup {hashString(normalizeCompliment(fallbackCompliments[i])) :
            i \in 1 .. Len(fallbackCompliments)}

ValidBodies ==
  {RequestBody(JsNumber(0), JsNumber(0), JsNumber(0), "string", OkEnv,
               [t |-> "array", items |-> a]) : a \in SUBSET HashUniverse}
  \cup
  {RequestBody(JsNumber(2000000), JsNumber(-3), JsNumber(61000), "string",
               OkEnv, [t |-> "undefined", items |-> {}]),
   RequestBody(JsUndefined, JsString, JsNull, "string", OkEnv,
               [t |-> "array", items |-> {}])}

InvalidBodies ==
  {RequestBody(JsNumber(0), JsNumber(0), JsNumber(0), "number", OkEnv,
               [t |-> "array", items |-> {}]),
   RequestBody(JsNumber(0), JsNumber(0), JsNumber(0), "string",
               [OkEnv EXCEPT !.t = "undefined"],
               [t |-> "array", items |-> {}]),
   RequestBody(JsNumber(0), JsNumber(0), JsNumber(0), "string",
               [OkEnv EXCEPT !.dpr = "string"],
               [t |-> "array", items |-> {}]),
   RequestBody(JsNumber(0), JsNumber(0), JsNumber(0), "string", OkEnv,
               [t |-> "string", items |-> {}])}

\* a body request.json() cannot parse
MalformedBody == [NoBody EXCEPT !.json = "malformed"]

Bodies == ValidBodies \cup InvalidBodies \cup {MalformedBody}

\* digests the fingerprint with the random sessionNonce can have
RouteHashes == {HashScenarioA, HashDrawZero, HashDrawTop, HashDrawTwice}

InitRoute == SelectIdle /\ RouteIdle /\ ClientIdle /\ PoolIdle /\ RngIdle /\ OtherIdle

\* request.json() throws: the outer catch answers with a random fallback
ReceiveMalformed ==
  /\ pc = "idle"
  /\ body' = MalformedBody
  /\ \E i \in 1 .. Len(fallbackCompliments) :
       response' =
         [status |-> 200,
          id |-> hashString(normalizeCompliment(fallbackCompliments[i])),
          text |-> fallbackCompliments[i]]
  /\ pc' = "done"
  /\ UNCHANGED <<signals, avoidHashesSet, nonceHash, rounds, fetchedTexts,
                 selectedCompliment, lastRound, usedFallback>>
  /\ UNCHANGED <<selectVars, clientVars, poolVars, rngVars, otherVars>>

\* lines 92-108
RejectInvalid ==
  /\ pc = "idle"
  /\ \E b \in Bodies :
       /\ b.json = "ok" /\ ~PassesValidation(b)
       /\ body' = b
  /\ response' = InvalidResponse
  /\ pc' = "done"
  /\ UNCHANGED <<signals, avoidHashesSet, nonceHash, rounds, fetchedTexts,
                 selectedCompliment, lastRound, usedFallback>>
  /\ UNCHANGED <<selectVars, clientVars, poolVars, rngVars, otherVars>>

\* lines 110-127, for the body b; the fingerprint digest is one of hashes
Accept(b, hashes) ==
  /\ b.json = "ok" /\ PassesValidation(b)
  /\ body' = b
  /\ signals' = ClampedSignals(b)
  /\ avoidHashesSet' = AvoidSetOf(b)
  /\ nonceHash' \in hashes
  /\ selectedCompliment' = NoCompliment
  /\ rounds' = 0
  /\ lastRound' = "none"
  /\ usedFallback' = FALSE
  /\ fetchedTexts' = <<>>
  /\ response' = NoResponse
  /\ pc' = "loop"

AcceptValid ==
  /\ pc = "idle"
  /\ \E b \in Bodies : Accept(b, RouteHashes)
  /\ UNCHANGED <<selectVars, clientVars, poolVars, rngVars, otherVars>>

\* lines 129-140: a round starts and its fetchPool call resolves; k of the
\* requests are answered, each with one of replies, the others fail
RoundStarts(replies, counts) ==
  /\ pc = "loop"
  /\ LoopCondition(selectedCompliment, rounds)
  /\ rounds' = rounds + 1
  /\ \E k \in counts :
       \E answered \in [1 .. k -> replies] :
         fetchedTexts' =
           FilterDefined([i \in 1 .. k |-> fetchCompliment(answered[i])])
  /\ pc' = "batch"
  /\ UNCHANGED <<body, signals, avoidHashesSet, nonceHash,
                 selectedCompliment, lastRound, usedFallback, response>>
  /\ UNCHANGED <<selectVars, clientVars, poolVars, rngVars, otherVars>>

StartRound == RoundStarts(ApiReplies, 0 .. Min(MaxFetched, batchSize))

\* the while condition is false
ExitLoop ==
  /\ pc = "loop"
  /\ ~LoopCondition(selectedCompliment, rounds)
  /\ pc' = "afterLoop"
  /\ UNCHANGED <<body, signals, avoidHashesSet, nonceHash, rounds,
                 fetchedTexts, selectedCompliment, lastRound, usedFallback,
                 response>>
  /\ UNCHANGED <<selectVars, clientVars, poolVars, rngVars, otherVars>>

RoundEnds(how, selected, where, avoidAfter) ==
  /\ lastRound' = how
  /\ selectedCompliment' = selected
  /\ pc' = where
  /\ avoidHashesSet' = avoidAfter
  /\ UNCHANGED <<body, signals, nonceHash, rounds,
                 fetchedTexts, usedFallback, response>>
  /\ UNCHANGED <<selectVars, clientVars, poolVars, rngVars, otherVars>>

\* lines 144-147
RoundEmptyBatch ==
  /\ pc = "batch"
  /\ Len(fetchedTexts) = 0
  /\ RoundEnds("empty batch", selectedCompliment, "loop", avoidHashesSet)

\* lines 150-157
RoundEmptyNormalized ==
  /\ pc = "batch"
  /\ Len(fetchedTexts) > 0
  /\ Len(NormalizedNonEmpty(fetchedTexts)) = 0
  /\ RoundEnds("empty after normalization", selectedCompliment, "loop",
               avoidHashesSet)

\* lines 160-183: what the round does with the selector's outcome; after
\* holds the selector's arguments as the call left them
RoundOutcome(result, after) ==
  \/ /\ result.kind = "throw"
     /\ RoundEnds("selection error", selectedCompliment, "loop",
                  after.avoidHashes)
  \/ /\ result.kind = "return"
     /\ Accepts(result, after.avoidHashes)
     /\ RoundEnds("selected",
                  [complimentText |-> result.complimentText,
                   complimentHash |-> result.complimentHash],
                  "afterLoop", after.avoidHashes)
  \/ /\ result.kind = "return"
     /\ ~Accepts(result, after.avoidHashes)
     /\ RoundEnds("avoided", selectedCompliment, "loop", after.avoidHashes)

\* lines 159-183: the selector runs on the normalized batch
RoundSelect ==
  /\ pc = "batch"
  /\ Len(NormalizedNonEmpty(fetchedTexts)) > 0
  /\ \E result \in {selectComplimentFromCandidates(nonceHash,
                      NormalizedNonEmpty(fetchedTexts), avoidHashesSet)} :
       RoundOutcome(result,
                    ArgsAfterSelect(NormalizedNonEmpty(fetchedTexts),
                                    avoidHashesSet))

\* try { selectComplimentFromCandidates(...) } catch { random pick }
FallbackPick(list, avoid) ==
  \E result \in {selectComplimentFromCandidates(nonceHash, list, avoid)} :
    \/ /\ result.kind = "return"
       /\ selectedCompliment' =
            [complimentText |-> result.complimentText,
             complimentHash |-> result.complimentHash]
    \/ /\ result.kind = "throw"
       /\ \E after \in {ArgsAfterSelect(list, avoid).candidates} :
            \E randomIndex \in 1 .. Len(after) :
              selectedCompliment' =
                [complimentText |-> after[randomIndex],
                 complimentHash |-> hashString(after[randomIndex])]

\* lines 192-233: every embedded compliment is avoided
FallbackUnfiltered ==
  /\ pc = "afterLoop"
  /\ selectedCompliment = NoCompliment
  /\ Len(FilterAvailable(fallbackCompliments, avoidHashesSet)) = 0
  /\ FallbackPick(MapNormalize(fallbackCompliments), {})
  /\ usedFallback' = TRUE
  /\ UNCHANGED <<pc, body, signals, avoidHashesSet, nonceHash, rounds,
                 fetchedTexts, lastRound, response>>
  /\ UNCHANGED <<selectVars, clientVars, poolVars, rngVars, otherVars>>

\* lines 192-206, 234-259: some embedded compliment is not avoided
FallbackFiltered ==
  /\ pc = "afterLoop"
  /\ selectedCompliment = NoCompliment
  /\ Len(FilterAvailable(fallbackCompliments, avoidHashesSet)) > 0
  /\ FallbackPick(FilterAvailable(fallbackCompliments, avoidHashesSet),
                  avoidHashesSet)
  /\ avoidHashesSet' =
       ArgsAfterSelect(FilterAvailable(fallbackCompliments, avoidHashesSet),
                       avoidHashesSet).avoidHashes
  /\ usedFallback' = TRUE
  /\ UNCHANGED <<pc, body, signals, nonceHash, rounds,
                 fetchedTexts, lastRound, response>>
  /\ UNCHANGED <<selectVars, clientVars, poolVars, rngVars, otherVars>>

\* lines 273-281 (the guard of lines 262-271 never finds null here)
Respond ==
  /\ pc = "afterLoop"
  /\ selectedCompliment # NoCompliment
  /\ response' = ComplimentResponse(selectedCompliment)
  /\ pc' = "done"
  /\ UNCHANGED <<body, signals, avoidHashesSet, nonceHash, rounds,
                 fetchedTexts, selectedCompliment, lastRound, usedFallback>>
  /\ UNCHANGED <<selectVars, clientVars, poolVars, rngVars, otherVars>>

\* the steps of the handler after a round has started or the loop has ended
Continue ==
  \/ ExitLoop
  \/ RoundEmptyBatch \/ RoundEmptyNormalized \/ RoundSelect
  \/ FallbackUnfiltered \/ FallbackFiltered
  \/ Respond

Handle == StartRound \/ Continue

Next == ReceiveMalformed \/ RejectInvalid \/ AcceptValid \/ Handle

Spec == InitRoute /\ [][Next]_vars

---------------------------------------------------------------------------
\* Claims about selectComplimentFromCandidates (SpecSelect)

CandidateHashSet(candidates) ==
  {hashFingerprint(normalizeCompliment(candidates[i])) :
     i \in 1 .. Len(candidates)}

CandidateTextSet(candidates) ==
  {normalizeCompliment(candidates[i]) : i \in 1 .. Len(candidates)}

SomeNotAvoided ==
  CandidateHashSet(selArgs.candidates) \ selArgs.avoidHashes # {}

AllAvoided ==
  /\ Len(selArgs.candidates) > 0
  /\ CandidateHashSet(selArgs.candidates) \subseteq selArgs.avoidHashes

\* C1 (avoid-set respect): when the candidates are not empty and at least
\* one of them has a hash outside avoidHashes, the complimentHash a call
\* returns is never a member of avoidHashes.
AvoidSetRespected ==
  \A i \in 1 .. Len(selOuts) :
    (SomeNotAvoided /\ selOuts[i].kind = "return")
      => selOuts[i].complimentHash \notin selArgs.avoidHashes

\* a call returned a compliment although one of its candidates was avoided
AvoidSetRespectedWitness ==
  /\ SomeNotAvoided
  /\ CandidateHashSet(selArgs.candidates) \cap selArgs.avoidHashes # {}
  /\ Len(selOuts) > 0
  /\ selOuts[1].kind = "return"

\* C2 (graceful exhaustion): when the candidates are not empty and all of
\* them are avoided, the call does not throw and returns the normalized text
\* of one of the candidates.
GracefulExhaustion ==
  \A i \in 1 .. Len(selOuts) :
    AllAvoided =>
      /\ selOuts[i].kind = "return"
      /\ selOuts[i].complimentText \in CandidateTextSet(selArgs.candidates)

\* C5 (determinism): calls with identical arguments return identical
\* complimentText, complimentHash and fingerprintHash (or fail alike),
\* whatever an earlier call left behind.
Observable(out) ==
  <<out.kind, out.error, out.complimentText, out.complimentHash,
    out.fingerprintHash>>

EmptyPoolError ==
  \A i \in 1 .. Len(selOuts) :
    /\ Len(selArgs.candidates) = 0 =>
         (selOuts[i].kind = "throw"
            /\ selOuts[i].error = "No compliments available")
    /\ Len(selArgs.candidates) > 0 =>
         selOuts[i].error # "No compliments available"

\* a call was made with an empty candidates list
EmptyPoolErrorWitness ==
  /\ Len(selArgs.candidates) = 0
  /\ selArgs.avoidHashes # {}
  /\ Len(selOuts) > 0

---------------------------------------------------------------------------
\* Claims about SplitMix64 (SpecRng)

\* C3 (index range): every next() returns v with 0 <= v < 1 and every
\* nextInt(n) with n >= 1 returns an integer i with 0 <= i < n.
DrawsInRange ==
  /\ lastDraw.op # "none" => LessThanOne(lastDraw.real)
  /\ lastDraw.op = "nextInt" => InBounds(lastDraw.int, lastDraw.max)

---------------------------------------------------------------------------
\* Claims about the pool-based route (Spec)

Validated == body.json = "ok" /\ PassesValidation(body)

IsCompliment(r) ==
  /\ r.status = 200
  /\ r.text # NoText
  /\ r.id # hashFingerprint(NoText)

FallbackHashes ==
  {hashString(normalizeCompliment(fallbackCompliments[i])) :
     i \in 1 .. Len(fallbackCompliments)}

\* C4 (totality of the route): the handler of a validated request ends
\* with a response that carries a compliment {id, text}, whatever the
\* fetches and the selections did.
RouteTotal ==
  (Validated /\ pc = "done") => IsCompliment(response)

\* every round ended in a selection error, the selection over the embedded
\* list failed too, and the request was answered
RouteTotalWitness ==
  /\ Validated /\ pc = "done"
  /\ rounds = maxRounds /\ lastRound = "selection error"
  /\ usedFallback
  /\ IsCompliment(response)

IdentifierConsistency ==
  (pc = "done" /\ response.status = 200)
    => response.id = hashString(normalizeCompliment(response.text))

FailedRounds ==
  {"empty batch", "empty after normalization", "selection error", "avoided"}

\* C8 (round retry): at most 3 rounds run; a round that fails (zero-length
\* batch, batch empty after normalization, selection error, avoided
\* selection) hands over to another round while fewer than 3 have run; no
\* round starts once a compliment is selected; the embedded list is reached
\* only after 3 rounds without a selection.
RoundRetry ==
  [][ /\ rounds' <= maxRounds
      /\ rounds' # rounds =>
           (rounds' = rounds + 1 /\ selectedCompliment = NoCompliment)
      /\ (pc = "batch" /\ pc' # "batch") =>
           IF lastRound' \in FailedRounds
           THEN /\ selectedCompliment' = NoCompliment
                /\ pc' = "loop"
                /\ rounds' = rounds
           ELSE lastRound' = "selected" /\ pc' = "afterLoop"
      /\ (usedFallback' /\ ~usedFallback) =>
           (rounds = maxRounds /\ lastRound \in FailedRounds)
    ]_vars

\* three rounds ran, the last one picked an avoided compliment, and the
\* embedded list answered
RoundRetryWitness ==
  /\ pc = "done" /\ rounds = maxRounds
  /\ lastRound = "avoided" /\ usedFallback

---------------------------------------------------------------------------
\* SpecClient: one browser client calling the route again and again. Each
\* request carries getAvoidHashes(200) and each answer is recorded with
\* addSeenComplimentHash. The remote API serves a catalogue in order and
\* moves on once a compliment of it has reached the client; it fails, and
\* fingerprints fall outside the range the selector survives, only before
\* the first delivery.

\* getAvoidHashes(limit = 200) as the client calls it
AvoidLimit == 200

\* "Cap at 1000 to prevent localStorage bloat"
SeenCap == 1000

Range(arr) == {arr[i] : i \in 1 .. Len(arr)}

\* Array.prototype.slice(start) with a relative start
Slice(arr, start) ==
  LET from == IF start < 0
              THEN (IF Len(arr) + start < 0 THEN 0 ELSE Len(arr) + start)
              ELSE Min(start, Len(arr))
  IN  SubSeq(arr, from + 1, Len(arr))

\* return all.slice(-limit)
getAvoidHashes(all, limit) == Slice(all, 0 - limit)

\* a store that never evicts
AddWithoutCap(current, hash) ==
  IF hash \in Range(current) THEN current ELSE Append(current, hash)

\* if (!current.includes(hash)) { push; if (length > 1000) shift() }
addSeenComplimentHash(current, hash) ==
  IF hash \in Range(current) THEN current
  ELSE LET pushed == Append(current, hash)
       IN  IF Len(pushed) > SeenCap THEN Tail(pushed) ELSE pushed

\* the compliments of the remote API: one more than a request can avoid
CatalogueSize == AvoidLimit + 1
Catalogue(n) == <<ToString(n % CatalogueSize)>>

\* Bound: requests the API answers from its catalogue
MaxServed == AvoidLimit + 2

\* the request body built by fetchCompliment of page.tsx
ClientBody ==
  RequestBody(JsNumber(0), JsNumber(0), JsNumber(0), "string", OkEnv,
              [t |-> "array",
               items |-> Range(getAvoidHashes(seen, AvoidLimit))])

ClientHashes == IF apiCursor = 0 THEN RouteHashes ELSE {HashDrawZero}

ClientApiReplies ==
  {[ok |-> TRUE, text |-> Catalogue(apiCursor)]}
    \cup (IF apiCursor = 0
          THEN {[ok |-> FALSE, text |-> <<>>], [ok |-> TRUE, text |-> <<"\t">>]}
          ELSE {})

InitClient == SelectIdle /\ RouteIdle /\ ClientIdle /\ PoolIdle /\ RngIdle /\ OtherIdle

\* page.tsx lines 56-75: the request is sent and the route accepts it
ClientFetch ==
  /\ pc = "idle"
  /\ apiCursor < MaxServed
  /\ Accept(ClientBody, ClientHashes)
  /\ UNCHANGED <<selectVars, clientVars, poolVars, rngVars, otherVars>>

ClientStartRound == RoundStarts(ClientApiReplies, {1})

\* page.tsx lines 77-86: the answer arrives and its id is recorded
ClientRecord ==
  /\ pc = "done"
  /\ response.status = 200
  /\ seen' = addSeenComplimentHash(seen, response.id)
  /\ addArg' = response.id
  /\ minted' = minted
  /\ apiCursor' =
       IF response.id = hashString(normalizeCompliment(Catalogue(apiCursor)))
       THEN apiCursor + 1 ELSE apiCursor
  /\ pc' = "idle" /\ body' = NoBody /\ signals' = NoSignals
  /\ avoidHashesSet' = {} /\ nonceHash' = HashScenarioA /\ rounds' = 0
  /\ fetchedTexts' = <<>> /\ selectedCompliment' = NoCompliment
  /\ lastRound' = "none" /\ usedFallback' = FALSE /\ response' = NoResponse
  /\ UNCHANGED <<selectVars, poolVars, rngVars, otherVars>>

NextClient == ClientFetch \/ ClientStartRound \/ Continue \/ ClientRecord

SpecClient == InitClient /\ [][NextClient]_vars

\* C9: No repeats until exhaustion: the id of a response that reaches the
\* client is not one the client has recorded, unless every embedded
\* compliment has been recorded.
NoRepeatsUntilExhaustion ==
  (pc = "done" /\ response.status = 200)
    => (response.id \notin Range(seen) \/ FallbackHashes \subseteq Range(seen))

---------------------------------------------------------------------------
\* SpecPool: one fetchPool(url, count, concurrency, fetchFn) run. The code
\* between two awaits runs without interruption; the fetchFn calls settle
\* in any order, each resolving or rejecting.

\* Bounds: arguments of the run
MaxCount == 4
MaxConcurrency == 3

PoolInputs ==
  [count : 0 .. MaxCount, concurrency : -1 .. MaxConcurrency]

Max(a, b) == IF a > b THEN a ELSE b

\* a worker for every slot, whatever the concurrency
LengthOfCount(count, limit) == Max(0, count)

\* Array.from({ length: Math.min(concurrency, count) }, ...): ToLength
\* turns a negative length into 0
WorkerCount(count, limit) == Max(0, Min(limit, count))

\* what fetchFn resolves with for the slot
Fetched(slot) == [from |-> slot]

Awaiting(slot) == [at |-> "await", currentIndex |-> slot]
Finished(slot) == [at |-> "returned", currentIndex |-> slot]

\* the array returned with its holes, no filter
RECURSIVE KeepHoles(_, _)
KeepHoles(arr, top) ==
  IF top < 0 THEN <<>>
  ELSE IF top \in DOMAIN arr
       THEN Append(KeepHoles(arr, top - 1), arr[top])
       ELSE Append(KeepHoles(arr, top - 1), [from |-> "undefined"])

\* results.filter(r => r !== undefined), up to the slot top
RECURSIVE FilterResults(_, _)
FilterResults(arr, top) ==
  IF top < 0 THEN <<>>
  ELSE IF top \in DOMAIN arr
       THEN Append(FilterResults(arr, top - 1), arr[top])
       ELSE FilterResults(arr, top - 1)

InFlight == {w \in DOMAIN workers : workers[w].at = "await"}

InitPool ==
  /\ SelectIdle /\ RouteIdle /\ ClientIdle /\ RngIdle /\ OtherIdle
  /\ poolArgs \in PoolInputs
  /\ index = 0 /\ results = <<>> /\ errors = 0 /\ workers = <<>>
  /\ poolReturn = NotCalled
  /\ calls = <<>>

\* lines 273-292: the call runs up to its await; each worker() started
\* claims a slot and calls fetchFn before the next one starts
CallFetchPool ==
  /\ poolReturn = NotCalled
  /\ LET n == WorkerCount(poolArgs.count, poolArgs.concurrency)
     IN  /\ workers' = [w \in 1 .. n |-> Awaiting(w - 1)]
         /\ calls' = [w \in 1 .. n |-> w - 1]
         /\ index' = n
  /\ poolReturn' = [state |-> "pending", value |-> <<>>]
  /\ UNCHANGED <<poolArgs, results, errors>>
  /\ UNCHANGED <<selectVars, routeVars, clientVars, rngVars, otherVars>>

\* a worker that counts its own slots on from the one it fetched
WorkerLoopsOwnCounter(w) ==
  IF index < poolArgs.count
  THEN /\ workers' =
            [workers EXCEPT ![w] = Awaiting(workers[w].currentIndex + 1)]
       /\ calls' = Append(calls, workers[w].currentIndex + 1)
       /\ index' = index + 1
  ELSE /\ workers' = [workers EXCEPT ![w] = Finished(workers[w].currentIndex)]
       /\ calls' = calls
       /\ index' = index

\* lines 280-281, 283-290: the worker goes round its loop after a fetch
WorkerLoops(w) ==
  IF index < poolArgs.count
  THEN /\ workers' = [workers EXCEPT ![w] = Awaiting(index)]
       /\ calls' = Append(calls, index)
       /\ index' = index + 1
  ELSE /\ workers' = [workers EXCEPT ![w] = Finished(workers[w].currentIndex)]
       /\ calls' = calls
       /\ index' = index

\* lines 282-284: a fetchFn call resolves
FetchResolves ==
  /\ \E w \in InFlight :
       /\ results' = (workers[w].currentIndex
                        :> Fetched(workers[w].currentIndex)) @@ results
       /\ WorkerLoops(w)
  /\ UNCHANGED <<poolArgs, errors, poolReturn>>
  /\ UNCHANGED <<selectVars, routeVars, clientVars, rngVars, otherVars>>

\* lines 285-288: a fetchFn call rejects
FetchRejects ==
  /\ \E w \in InFlight : WorkerLoops(w)
  /\ errors' = errors + 1
  /\ UNCHANGED <<poolArgs, results, poolReturn>>
  /\ UNCHANGED <<selectVars, routeVars, clientVars, rngVars, otherVars>>

\* as if a worker let the error of its fetch escape: Promise.all rejects
ReturnOrReject ==
  /\ poolReturn.state = "pending"
  /\ InFlight = {}
  /\ poolReturn' =
       IF errors > 0
       THEN [state |-> "rejected", value |-> <<>>]
       ELSE [state |-> "resolved",
             value |-> FilterResults(results, poolArgs.count - 1)]
  /\ UNCHANGED <<poolArgs, index, results, errors, workers, calls>>
  /\ UNCHANGED <<selectVars, routeVars, clientVars, rngVars, otherVars>>

\* lines 294-297: Promise.all(workers) resolves
ReturnResults ==
  /\ poolReturn.state = "pending"
  /\ InFlight = {}
  /\ poolReturn' = [state |-> "resolved",
                    value |-> FilterResults(results, poolArgs.count - 1)]
  /\ UNCHANGED <<poolArgs, index, results, errors, workers, calls>>
  /\ UNCHANGED <<selectVars, routeVars, clientVars, rngVars, otherVars>>

NextPool == CallFetchPool \/ FetchResolves \/ FetchRejects \/ ReturnResults

SpecPool == InitPool /\ [][NextPool]_vars

\* the call is made, every fetchFn call settles, and a promise whose
\* workers have all returned is resolved by the event loop
SpecPoolFair ==
  /\ SpecPool
  /\ WF_vars(CallFetchPool)
  /\ WF_vars(FetchResolves \/ FetchRejects)
  /\ WF_vars(ReturnResults)

\* C10, as stated: the fetchFn calls started and not yet settled number at
\* most min(concurrency, count).
InFlightAtMostMin ==
  poolReturn.state # "not called"
    => Cardinality(InFlight) <= Min(poolArgs.concurrency, poolArgs.count)

\* C10: Bounded concurrency of fetchPool: the fetchFn calls started and not
\* yet settled number at most min(concurrency, count), or none when that
\* minimum is negative.
BoundedConcurrency ==
  poolReturn.state # "not called"
    => Cardinality(InFlight)
         <= Max(0, Min(poolArgs.concurrency, poolArgs.count))

\* two calls are in flight, the most the arguments allow, after a call
\* has failed and its worker has gone on to the next slot
BoundedConcurrencyWitness ==
  /\ poolArgs.concurrency = 2 /\ poolArgs.count > 2
  /\ Cardinality(InFlight) = 2
  /\ errors > 0 /\ index > 2

\* the values fetchFn resolves with in a run
SlotResults == {Fetched(slot) : slot \in 0 .. poolArgs.count - 1}

\* fetchFn calls made so far, and those of them that resolved
CallsMade == index
CallsSettled == index - Cardinality(InFlight)
Successes == CallsSettled - errors

---------------------------------------------------------------------------
\* SpecStore: addSeenComplimentHash called again and again on a store that
\* starts empty. The caller passes a hash it has not passed before, or
\* passes again the oldest, the newest or the first hash it came up with.

StoreHash(n) == hashString(<<ToString(n)>>)

\* Bound: hashes the caller comes up with, enough to evict three times
MaxMinted == SeenCap + 3

StoredAgain ==
  IF seen = <<>> THEN {}
  ELSE {seen[1], seen[Len(seen)], StoreHash(0)}

InitStore ==
  SelectIdle /\ RouteIdle /\ ClientIdle /\ PoolIdle /\ RngIdle /\ OtherIdle

AddSeen(hash) ==
  /\ seen' = addSeenComplimentHash(seen, hash)
  /\ addArg' = hash
  /\ UNCHANGED apiCursor
  /\ UNCHANGED <<selectVars, routeVars, poolVars, rngVars, otherVars>>

\* a hash never passed before
AddNew ==
  /\ minted < MaxMinted
  /\ minted' = minted + 1
  /\ AddSeen(StoreHash(minted))

\* a hash passed before
AddAgain ==
  /\ minted' = minted
  /\ \E hash \in StoredAgain : AddSeen(hash)

NextStore == AddNew \/ AddAgain

SpecStore == InitStore /\ [][NextStore]_vars

\* the effect of one call on the stored list
AddEffect ==
  /\ addArg' \in Range(seen) => seen' = seen
  /\ (addArg' \notin Range(seen) /\ Len(seen) < SeenCap)
       => seen' = Append(seen, addArg')
  /\ (addArg' \notin Range(seen) /\ Len(seen) = SeenCap)
       => seen' = Append(Tail(seen), addArg')

\* C12: Seen-hash store bound and FIFO eviction: the stored list holds at
\* most 1000 hashes and none twice; adding a stored hash leaves the list
\* unchanged; adding a new hash to a list of 1000 removes the oldest entry
\* and appends the new hash as the newest.
SeenStoreBound ==
  /\ [](Len(seen) <= SeenCap /\ Cardinality(Range(seen)) = Len(seen))
  /\ [][AddEffect]_vars

\* the store is full, its first hash has been evicted and the hash just
\* added is its newest entry
SeenStoreBoundWitness ==
  /\ Len(seen) = SeenCap
  /\ minted > SeenCap
  /\ StoreHash(0) \notin Range(seen)
  /\ seen[SeenCap] = addArg

---------------------------------------------------------------------------
\* Spec, the request boundary of the route

\* 0 <= x <= cap, which no NaN satisfies
WithinCap(x, cap) == ~x.nan /\ 0 <= x.n /\ x.n <= cap

\* the handler is at or past the while loop of line 129
PastValidation == pc \in {"loop", "batch", "afterLoop"} \/ (pc = "done" /\ Validated)

\* C13: Signal clamping: once the route reaches fetching or selection, the
\* signals handed to the selector satisfy 0 <= pixelsMoved <= 1,000,000,
\* 0 <= clicks <= 10,000 and 0 <= idleMs <= 60,000, whatever the body
\* carried.
SignalClamping ==
  PastValidation =>
    /\ WithinCap(signals.pixelsMoved, MaxPixelsMoved)
    /\ WithinCap(signals.clicks, MaxClicks)
    /\ WithinCap(signals.idleMs, MaxIdleMs)

\* a body the boundary is to reject: a signal that is missing or not a
\* number, a userKey that is not a string, env or one of its fields missing
\* or not a number, avoidHashes present and not an array
Defective(b) ==
  \/ b.pixelsMoved.t # "number" \/ b.clicks.t # "number"
  \/ b.idleMs.t # "number"
  \/ b.userKey # "string"
  \/ b.env.t # "object"
  \/ b.env.w # "number" \/ b.env.h # "number"
  \/ b.env.dpr # "number" \/ b.env.tzOffset # "number"
  \/ b.avoidHashes.t \notin {"array", "undefined"}

\* C14: Boundary validation: a request with a defective body is answered
\* with status 400, and no round (remote fetch, selection) is started and
\* no embedded compliment selected for it.
BoundaryValidation ==
  (body.json = "ok" /\ Defective(body)) =>
    /\ pc = "done"
    /\ response = InvalidResponse
    /\ rounds = 0 /\ selectedCompliment = NoCompliment

---------------------------------------------------------------------------
\* SpecFingerprint: buildFingerprint applied to two inputs that differ in
\* exactly one field. A string is a sequence of tokens, so that join('|')
\* is a concatenation and two different lists of parts can give one string.

MovementScale == 5000
ClicksScale == 10
IdleScale == 3000

\* sessionNonce?: string, when the argument is absent
Absent == <<"undefined">>

\* `${x}` for a number
NumberText(x) == IF x.nan THEN "NaN" ELSE ToString(x.n)

\* smooth01(x, k).toFixed(10): the ten decimals tell 0 from a positive
\* value and read 1.0000000000 from x >= 24 k on (1 - exp(-24) rounds to
\* 1); all values in between are taken to print alike
SmoothFixed(x, k) ==
  IF x.nan THEN "NaN"
  ELSE IF x.n <= 0 THEN "0.0000000000"
  ELSE IF x.n >= 24 * k THEN "1.0000000000"
  ELSE "0.##########"

\* if (sessionNonce): undefined and the empty string are falsy
Truthy(nonce) == nonce # Absent /\ nonce # <<>>

\* parts.join('|')
RECURSIVE Join(_)
Join(parts) ==
  IF parts = <<>> THEN <<>>
  ELSE IF Len(parts) = 1 THEN parts[1]
  ELSE parts[1] \o <<"|">> \o Join(Tail(parts))

\* lines 59-87
buildFingerprint(in) ==
  Join(<< <<"m:", SmoothFixed(in.pixelsMoved, MovementScale)>>,
          <<"c:", SmoothFixed(in.clicks, ClicksScale)>>,
          <<"i:", SmoothFixed(in.idleMs, IdleScale)>>,
          <<"rawM:", NumberText(in.pixelsMoved)>>,
          <<"rawC:", NumberText(in.clicks)>>,
          <<"rawI:", NumberText(in.idleMs)>>,
          <<"env:", NumberText(in.w), "x", NumberText(in.h), ":",
            NumberText(in.dpr), ":", NumberText(in.tzOffset)>>,
          <<"user:">> \o in.userKey >>
       \o (IF Truthy(in.sessionNonce)
           THEN << <<"nonce:">> \o in.sessionNonce >> ELSE <<>>))

\* the values each input of buildFingerprint is drawn from
FieldValues ==
  [pixelsMoved |-> {Num(0), Num(120000), Num(130000), NaN},
   clicks |-> {Num(0), Num(3)},
   idleMs |-> {Num(0), Num(250)},
   w |-> {Num(1280), Num(1281)},
   h |-> {Num(720), Num(800)},
   dpr |-> {Num(1), Num(2)},
   tzOffset |-> {Num(0), Num(-60)},
   userKey |-> {<<"u">>, <<"v">>},
   sessionNonce |-> {Absent, <<>>, <<"n1">>, <<"n2">>}]

FingerprintInputs ==
  [pixelsMoved : FieldValues.pixelsMoved, clicks : FieldValues.clicks,
   idleMs : FieldValues.idleMs, w : FieldValues.w, h : FieldValues.h,
   dpr : FieldValues.dpr, tzOffset : FieldValues.tzOffset,
   userKey : FieldValues.userKey, sessionNonce : FieldValues.sessionNonce]

\* the inputs that differ from in in exactly one field
SingleChanges(in) ==
  UNION {{[in EXCEPT ![f] = v] : v \in FieldValues[f] \ {in[f]}} :
           f \in DOMAIN FieldValues}

CoreIdle == SelectIdle /\ RouteIdle /\ ClientIdle /\ PoolIdle /\ RngIdle

InitFingerprint ==
  /\ CoreIdle /\ GeneratorIdle /\ NormalizeIdle /\ IssuedIdle /\ GiftIdle /\ LateIdle
  /\ \E in \in FingerprintInputs :
       \E other \in SingleChanges(in) : fpArgs = <<in, other>>
  /\ fpOuts = <<>>

BuildBoth ==
  /\ fpOuts = <<>>
  /\ fpOuts' = <<buildFingerprint(fpArgs[1]), buildFingerprint(fpArgs[2])>>
  /\ UNCHANGED <<fpArgs, coreVars, generatorVars, normalizeVars, issuedVars,
                 giftVars, lateVars>>

NextFingerprint == BuildBoth

SpecFingerprint == InitFingerprint /\ [][NextFingerprint]_vars

\* C15: Fingerprint sensitivity: two inputs of buildFingerprint that differ
\* in exactly one field (a signal, an env field, the user key, the nonce,
\* the nonce being absent for one of them included) give different
\* fingerprint strings.
FingerprintSensitivity == fpOuts # <<>> => fpOuts[1] # fpOuts[2]

---------------------------------------------------------------------------
\* SpecGenerator: generateCompliment(keyHex, pixelsMoved, clicks, idleMs)
\* of lib/complimentGenerator.ts. A phrase is its position in its bank.
\* The normalised signals m, c, i = smooth01(...) are multiples of
\* 1 / MaxLevel in [0, 1]; the style values are kept in units of
\* 1 / (10 MaxLevel) and the weights in units of 1 / (100 MaxLevel).

\* Bound: steps between 0 and 1 of a normalised signal
MaxLevel == 2

OpenersCount == 20
TraitsCount == 65
EvidenceCount == 60
ClosersCount == 15

Abs(x) == IF x < 0 THEN 0 - x ELSE x

\* 0.6 * c + 0.4 * (1 - i)
Tempo(m, c, i) == 6 * c + 4 * (MaxLevel - i)
\* 0.7 * i + 0.3 * (1 - c)
Softness(m, c, i) == 7 * i + 3 * (MaxLevel - c)
\* 0.7 * m + 0.3 * c
Spark(m, c, i) == 7 * m + 3 * c

\* the quartile weights without their constant 0.5
QuartileWeightNoFloor(j, m, c, i) ==
  IF j < 15 THEN 15 * Softness(m, c, i)
  ELSE IF j < 30 THEN 15 * Spark(m, c, i)
  ELSE IF j < 45 THEN 15 * Tempo(m, c, i)
  ELSE 100 * MaxLevel - 10 * Abs(Tempo(m, c, i) - Softness(m, c, i))

\* traitWeights and evidenceWeights, for the array index j (from 0)
QuartileWeight(j, m, c, i) ==
  IF j < 15 THEN 50 * MaxLevel + 15 * Softness(m, c, i)
  ELSE IF j < 30 THEN 50 * MaxLevel + 15 * Spark(m, c, i)
  ELSE IF j < 45 THEN 50 * MaxLevel + 15 * Tempo(m, c, i)
  ELSE 50 * MaxLevel
         + (100 * MaxLevel - 10 * Abs(Tempo(m, c, i) - Softness(m, c, i)))

Banks == {"opener", "trait", "evidence", "closer"}

BankSize(bank) ==
  CASE bank = "opener" -> OpenersCount
    [] bank = "trait" -> TraitsCount
    [] bank = "evidence" -> EvidenceCount
    [] bank = "closer" -> ClosersCount

\* openerWeights, traitWeights, evidenceWeights, closerWeights
BankWeights(bank, m, c, i) ==
  [j \in 1 .. BankSize(bank) |->
     CASE bank = "opener" -> 100 * MaxLevel
       [] bank \in {"trait", "evidence"} -> QuartileWeight(j - 1, m, c, i)
       [] bank = "closer" -> 80 * MaxLevel + 4 * Softness(m, c, i)]

RECURSIVE SumOf(_, _)
SumOf(weights, j) ==
  IF j > Len(weights) THEN 0 ELSE weights[j] + SumOf(weights, j + 1)

\* the for loop of weightedSelect: random = floor + a fraction, the fraction
\* being zero when exact; random -= weights[j]; if (random <= 0) return
RECURSIVE SelectLoop(_, _, _, _, _)
SelectLoop(weights, j, sum, floor, exact) ==
  IF j > Len(weights) THEN Len(weights)
  ELSE IF floor < sum + weights[j] \/ (floor = sum + weights[j] /\ exact)
       THEN j
       ELSE SelectLoop(weights, j + 1, sum + weights[j], floor, exact)

\* weightedSelect(items, weights, rng) for the value draw of nextDouble()
weightedSelect(weights, draw) ==
  LET totalWeight == SumOf(weights, 1)
      product == TimesCarry(draw.frac \o draw.whole, totalWeight, 1, 0)
      floor == SubSeq(product, 5, Len(product))
      exact == \A k \in 1 .. 4 : product[k] = 0
  IN  IF Small(floor)
      THEN SelectLoop(weights, 1, 0, ToNat(floor), exact)
      ELSE Len(weights)

\* lines 236-262: the four phrases of the compliment
generateCompliment(keyHex, m, c, i) ==
  LET rng == SplitMix64(hashToSeed(keyHex))
      d1 == nextDouble(rng)
      d2 == nextDouble(d1.state)
      d3 == nextDouble(d2.state)
      d4 == nextDouble(d3.state)
  IN  [opener |-> weightedSelect(BankWeights("opener", m, c, i), d1.value),
       trait |-> weightedSelect(BankWeights("trait", m, c, i), d2.value),
       evidence |->
         weightedSelect(BankWeights("evidence", m, c, i), d3.value),
       closer |-> weightedSelect(BankWeights("closer", m, c, i), d4.value)]

InitGenerator ==
  /\ CoreIdle /\ FingerprintIdle /\ NormalizeIdle /\ IssuedIdle /\ GiftIdle /\ LateIdle
  /\ genArgs \in [m : 0 .. MaxLevel, c : 0 .. MaxLevel, i : 0 .. MaxLevel,
                  keyHex : {HashScenarioA}]
  /\ genOut = NotRun

\* one call, for the signals of the session and any key
Generate ==
  /\ genOut = NotRun
  /\ \E keyHex \in FingerprintHashes :
       /\ genArgs' = [genArgs EXCEPT !.keyHex = keyHex]
       /\ genOut' = generateCompliment(keyHex, genArgs.m, genArgs.c,
                                       genArgs.i)
  /\ UNCHANGED <<coreVars, fingerprintVars, normalizeVars, issuedVars,
                 giftVars, lateVars>>

NextGenerator == Generate

SpecGenerator == InitGenerator /\ [][NextGenerator]_vars

\* the inverse of z ^ (z >> s), for 3 s > 63
UnXorShr(z, s) ==
  [j \in 1 .. 8 |->
     LET b(k) == (Bit(z, 8 * (j - 1) + k) + Bit(z, 8 * (j - 1) + k + s)
                    + Bit(z, 8 * (j - 1) + k + 2 * s)) % 2
     IN  b(0) + 2 * b(1) + 4 * b(2) + 8 * b(3)
         + 16 * b(4) + 32 * b(5) + 64 * b(6) + 128 * b(7)]

\* the inverses modulo 2^64 of the two multipliers of next():
\* 0x96de1b173f119089 and 0x319642b2d24d8ec3
MixAInverse == FromHex(<<9,6,13,14,1,11,1,7,3,15,1,1,9,0,8,9>>)
MixBInverse == FromHex(<<3,1,9,6,4,2,11,2,13,2,4,13,8,14,12,3>>)

\* the generator state the mixing lines of next() turn into z
Unmix(z) ==
  LET z2 == Mul64(UnXorShr(z, 31), MixBInverse)
      z1 == Mul64(UnXorShr(z2, 27), MixAInverse)
  IN  UnXorShr(z1, 30)

\* (0 - a) & 0xffffffffffffffff
Neg64(a) == Add64([j \in 1 .. 8 |-> 255 - a[j]], <<1, 0, 0, 0, 0, 0, 0, 0>>)

\* the seed whose first next() mixes to z
SeedProducing(z) == Add64(Unmix(z), Neg64(Gamma))

\* the 64-bit values k * 2^23 below 2^32: next() returns k / 512
DrawGrid == {<<0, 0, lo, hi, 0, 0, 0, 0>> : lo \in {0, 128}, hi \in Byte}

\* next() does return each value of the grid, for the seed computed
GridProduced ==
  \A z \in DrawGrid :
    next(SplitMix64(SeedProducing(z))).value = Scale(z)

RECURSIVE SumBefore(_, _)
SumBefore(weights, j) ==
  IF j <= 1 THEN 0 ELSE weights[j - 1] + SumBefore(weights, j - 1)

\* the first value k * 2^23 that, as a share of the total weight, lies
\* beyond the weights of the phrases before phrase j
GridDrawFor(weights, j) ==
  LET k == IF j = 1 THEN 0
           ELSE (2 * 256 * SumBefore(weights, j)) \div SumOf(weights, 1) + 1
  IN  <<0, 0, 128 * (k % 2), k \div 2, 0, 0, 0, 0>>

\* C16: Every phrase reachable: for every signal triple every phrase of
\* every bank has a strictly positive weight, and for each phrase there is
\* a value next() can produce for which weightedSelect returns it.
EveryPhraseReachable ==
  /\ genOut = NotRun =>
       /\ GridProduced
       /\ \A bank \in Banks :
            LET weights == BankWeights(bank, genArgs.m, genArgs.c, genArgs.i)
            IN  /\ \A j \in 1 .. BankSize(bank) : weights[j] > 0
                /\ \A j \in 1 .. BankSize(bank) :
                     \E z \in {GridDrawFor(weights, j)} :
                       /\ z \in DrawGrid
                       /\ weightedSelect(weights, Scale(z)) = j
  /\ genOut # NotRun =>
       \A bank \in Banks : genOut[bank] \in 1 .. BankSize(bank)

\* generateCompliment has picked an opener and a trait that are neither the
\* first nor the last of their banks
EveryPhraseReachableWitness ==
  /\ genOut # NotRun
  /\ genOut.opener \notin {1, OpenersCount}
  /\ genOut.trait \notin {1, TraitsCount}

---------------------------------------------------------------------------
\* SpecNormalize: two texts normalized and hashed as the selector does
\* (entropy.ts lines 248-254) and as the route does (route.ts lines 62-64
\* with hashString).

\* Bound: tokens of a text
MaxTextLen == 4

TextTokens == {"x", " ", "\t"}
Texts == SeqsUpTo(TextTokens, MaxTextLen)

\* text, selector hash and route hash of a raw text
Normalized(t) ==
  [text |-> normalizeCompliment(t),
   selector |-> candidateHashes(<<t>>)[1],
   route |-> hashString(normalizeCompliment(t))]

InitNormalize ==
  /\ CoreIdle /\ FingerprintIdle /\ GeneratorIdle /\ IssuedIdle /\ GiftIdle /\ LateIdle
  /\ normArgs \in Texts \X Texts
  /\ normOuts = <<>>

NormalizeBoth ==
  /\ normOuts = <<>>
  /\ normOuts' = <<Normalized(normArgs[1]), Normalized(normArgs[2])>>
  /\ UNCHANGED <<normArgs, coreVars, fingerprintVars, generatorVars,
                 issuedVars, giftVars, lateVars>>

NextNormalize == NormalizeBoth

SpecNormalize == InitNormalize /\ [][NextNormalize]_vars

\* the words of a text: its maximal runs of visible tokens
RECURSIVE Words(_, _)
Words(t, word) ==
  IF t = <<>> THEN (IF word = <<>> THEN <<>> ELSE <<word>>)
  ELSE IF IsSpace(Head(t))
       THEN (IF word = <<>> THEN <<>> ELSE <<word>>) \o Words(Tail(t), <<>>)
       ELSE Words(Tail(t), Append(word, Head(t)))

\* the texts differ only in leading, trailing or repeated white space
SameWords(t, u) == Words(t, <<>>) = Words(u, <<>>)

\* C17: Dedup idempotence of normalization: normalizing a normalized text
\* changes nothing, and two texts that differ only in leading, trailing or
\* repeated internal white space get the same normalized text and the same
\* hash, in the selector and in the route.
NormalizationIdempotent ==
  normOuts # <<>> =>
    /\ \A k \in 1 .. 2 :
         /\ normalizeCompliment(normOuts[k].text) = normOuts[k].text
         /\ normOuts[k].selector.text = normOuts[k].text
         /\ normOuts[k].selector.hash = normOuts[k].route
    /\ SameWords(normArgs[1], normArgs[2]) => normOuts[1] = normOuts[2]

\* two different texts of two words each, with the same words, have been
\* normalized
NormalizationIdempotentWitness ==
  /\ normOuts # <<>>
  /\ normArgs[1] # normArgs[2]
  /\ SameWords(normArgs[1], normArgs[2])
  /\ Len(Words(normArgs[1], <<>>)) = 2
  /\ normOuts[1].text # normArgs[1] /\ normOuts[2].text # normArgs[2]

---------------------------------------------------------------------------
\* the selector's arguments at the call the handler is about to make
PendingCall ==
  IF pc = "batch" /\ Len(NormalizedNonEmpty(fetchedTexts)) > 0
  THEN {[candidates |-> NormalizedNonEmpty(fetchedTexts),
         avoidHashes |-> avoidHashesSet]}
  ELSE IF pc = "afterLoop" /\ selectedCompliment = NoCompliment
       THEN IF Len(FilterAvailable(fallbackCompliments, avoidHashesSet)) > 0
            THEN {[candidates |->
                     FilterAvailable(fallbackCompliments, avoidHashesSet),
                   avoidHashes |-> avoidHashesSet]}
            ELSE {[candidates |-> MapNormalize(fallbackCompliments),
                   avoidHashes |-> {}]}
       ELSE {}

---------------------------------------------------------------------------
\* SpecIssued: the database-backed route (unnamed/part_002) answering
\* concurrent requests of one user.  Every await of the handler is a step
\* of its own; the steps of different requests interleave.

\* Bound: concurrent requests of the user
MaxRequests == 2
\* Bound: rows of the compliment table
MaxIds == 3

\* db.compliment.findMany({select: {id: true}}).map(c => c.id)
availableIds == [i \in 1 .. MaxIds |-> <<"c", ToString(i)>>]

NoId == <<"undefined">>

\* digests of the requests' fingerprints: first draws 0, 1/2, just below 1,
\* and a draw of 1 or more
RequestHashes == {HashDrawZero, HashDrawHalf, HashDrawTop, HashScenarioA}

\* issued.map(i => i.complimentId) as a Set
IdsOf(rows) == {rows[i].complimentId : i \in 1 .. Len(rows)}

\* availableComplimentIds.filter(id => !alreadyIssuedIds.has(id))
RECURSIVE FilterNotIssued(_, _)
FilterNotIssued(ids, alreadyIssuedIds) ==
  IF ids = <<>> THEN <<>>
  ELSE IF Head(ids) \in alreadyIssuedIds
       THEN FilterNotIssued(Tail(ids), alreadyIssuedIds)
       ELSE <<Head(ids)>> \o FilterNotIssued(Tail(ids), alreadyIssuedIds)

\* arr[rng.nextInt(arr.length)]
DrawnId(arr, hash) ==
  LET d == nextInt(SplitMix64(hashToSeed(hash)), Len(arr))
  IN  IF InBounds(d.value, Len(arr)) THEN arr[ToNat(d.value) + 1] ELSE NoId

\* selectCompliment(signals, userKey, env, availableComplimentIds,
\* alreadyIssuedIds); hash is the digest of the fingerprint
selectCompliment(hash, availableComplimentIds, alreadyIssuedIds) ==
  LET candidateIds == FilterNotIssued(availableComplimentIds, alreadyIssuedIds)
  IN  IF Len(candidateIds) = 0
      THEN DrawnId(availableComplimentIds, hash)
      ELSE DrawnId(candidateIds, hash)

NoRequest ==
  [pc |-> "none", hash |-> NoHash, alreadyIssuedIds |-> {},
   complimentId |-> NoId, status |-> 0]

InitIssued ==
  /\ CoreIdle /\ FingerprintIdle /\ GeneratorIdle /\ NormalizeIdle
  /\ GiftIdle /\ LateIdle
  /\ issued = <<>>
  /\ requests = [r \in 1 .. MaxRequests |-> NoRequest]

\* a valid request arrives; db.compliment.findMany resolves
Arrive(r) ==
  /\ requests[r].pc = "none"
  /\ \E hash \in RequestHashes :
       requests' = [requests EXCEPT ![r].pc = "findIssued", ![r].hash = hash]
  /\ UNCHANGED <<issued, coreVars, fingerprintVars, generatorVars,
                 normalizeVars, giftVars, lateVars>>

\* db.issued.findMany({where: {userKey}}) resolves
FindIssued(r) ==
  /\ requests[r].pc = "findIssued"
  /\ requests' = [requests EXCEPT ![r].pc = "select",
                                  ![r].alreadyIssuedIds = IdsOf(issued)]
  /\ UNCHANGED <<issued, coreVars, fingerprintVars, generatorVars,
                 normalizeVars, giftVars, lateVars>>

\* selectCompliment and db.compliment.findUnique resolve: a row is found
SelectFound(r) ==
  /\ requests[r].pc = "select"
  /\ \E id \in {selectCompliment(requests[r].hash, availableIds,
                                 requests[r].alreadyIssuedIds)} :
       /\ id # NoId
       /\ requests' = [requests EXCEPT ![r].pc = "create",
                                       ![r].complimentId = id]
  /\ UNCHANGED <<issued, coreVars, fingerprintVars, generatorVars,
                 normalizeVars, giftVars, lateVars>>

\* the drawn index is outside the array: findUnique has no id to look for,
\* and the request ends with status 500
SelectFails(r) ==
  /\ requests[r].pc = "select"
  /\ selectCompliment(requests[r].hash, availableIds,
                      requests[r].alreadyIssuedIds) = NoId
  /\ requests' = [requests EXCEPT ![r].pc = "done", ![r].status = 500]
  /\ UNCHANGED <<issued, coreVars, fingerprintVars, generatorVars,
                 normalizeVars, giftVars, lateVars>>

\* the issued table accepts every row: it is keyed by user_key, which
\* many rows share
CreateIssued(rows, row) == Append(rows, row)

\* db.issued.create resolves and the compliment is answered
Create(r) ==
  /\ requests[r].pc = "create"
  /\ issued' = CreateIssued(issued,
                            [complimentId |-> requests[r].complimentId,
                             fingerprintHash |-> requests[r].hash])
  /\ requests' = [requests EXCEPT ![r].pc = "done", ![r].status = 200]
  /\ UNCHANGED <<coreVars, fingerprintVars, generatorVars, normalizeVars,
                 giftVars, lateVars>>

NextIssued ==
  \E r \in 1 .. MaxRequests :
    Arrive(r) \/ FindIssued(r) \/ SelectFound(r) \/ SelectFails(r) \/ Create(r)

SpecIssued == InitIssued /\ [][NextIssued]_vars

\* the row a step adds records an id that the user was issued before,
\* although another id was not issued yet
RepeatsEarly ==
  /\ Len(issued') = Len(issued) + 1
  /\ issued'[Len(issued')].complimentId \in IdsOf(issued)
  /\ IdsOf(issued) # {availableIds[i] : i \in 1 .. MaxIds}

\* C19: Server-side dedup under concurrency: whatever the interleaving of
\* the requests of one user, no compliment id is recorded as issued to the
\* user a second time while some compliment was not issued to the user yet.
ServerSideDedup == [][~RepeatsEarly]_vars

---------------------------------------------------------------------------
\* SpecGift: one mounted LoadingGift (components/LoadingGift.tsx).  Every
\* callback (frame, event handler, interval, timeout, effect) runs to its
\* end and is one step.  Time is kept relative, in units of TickMs: since
\* the last move, until the interval is due, until the suspension ends; the
\* tick at which the loading duration has elapsed is the environment's.
\* loading.elapsed is a history value: the ticks that passed from the mount
\* to the stop of the tracking.

\* Bound: mouse moves and clicks delivered to the window
MaxEvents == 3
\* Bound: units of time the pointer rests while the signals are tracked
MaxSince == 3
\* Bound: re-runs of the setup effect (onComplete or reducedMotion changed)
MaxReruns == 1

\* greatest common divisor of the delays 100 and 750
TickMs == 50
SuspensionMs == 750
IdleIntervalMs == 100
IdleThresholdMs == 100

\* pointer positions: their distances are whole numbers
Pointers == {<<0, 0>>, <<3, 4>>}

\* Math.sqrt(dx * dx + dy * dy)
Distance(dx, dy) == CHOOSE d \in 0 .. 5 : d * d = dx * dx + dy * dy

\* the three values handed to onComplete
SignalsOf(ref) ==
  [pixelsMoved |-> ref.pixelsMoved, clicks |-> ref.clicks,
   idleMs |-> ref.idleMs]

\* lines 564-591, the sparkle trail left out; first is the closure's
\* isFirstMove
handleMouseMove(ref, first, x, y) ==
  IF ~ref.isTracking THEN ref
  ELSE IF first
       THEN [ref EXCEPT !.lastX = x, !.lastY = y, !.sinceMove = 0]
       ELSE [ref EXCEPT
               !.pixelsMoved = @ + Distance(x - ref.lastX, y - ref.lastY),
               !.lastX = x, !.lastY = y, !.sinceMove = 0]

\* a click handler that counts whether or not the signals are tracked
handleClickUnguarded(ref) == [ref EXCEPT !.clicks = @ + 1]

\* lines 592-594, the gift burst left out
handleClick(ref) ==
  IF ~ref.isTracking THEN ref ELSE [ref EXCEPT !.clicks = @ + 1]

\* lines 623-630
idleCheck(ref) ==
  IF ~ref.isTracking THEN ref
  ELSE IF ref.sinceMove * TickMs > IdleThresholdMs
       THEN [ref EXCEPT !.idleMs = @ + IdleIntervalMs]
       ELSE ref

\* lines 516-522
stopTracking(ref) ==
  LET finalIdleMs == ref.sinceMove * TickMs
  IN  [ref EXCEPT !.isTracking = FALSE,
                  !.idleMs = IF finalIdleMs > 100 THEN @ + finalIdleMs ELSE @]

NoTimer == -1

\* lines 38-65 and the first run of the setup effect
InitGift ==
  /\ CoreIdle /\ FingerprintIdle /\ GeneratorIdle /\ NormalizeIdle
  /\ IssuedIdle /\ LateIdle
  /\ signalsRef = [pixelsMoved |-> 0, clicks |-> 0, idleMs |-> 0,
                   sinceMove |-> 0, lastX |-> 0, lastY |-> 0,
                   isTracking |-> TRUE]
  /\ loading = [mounted |-> TRUE, isFirstMove |-> TRUE,
                elapsedFull |-> FALSE,
                falseEnding |-> FALSE, isOpening |-> FALSE,
                closure |-> [falseEnding |-> FALSE, isOpening |-> FALSE],
                intervalLeft |-> IdleIntervalMs \div TickMs,
                timeout |-> NoTimer,
                events |-> 0, lateEvents |-> 0, reruns |-> 0,
                elapsed |-> 0]
  /\ completed = <<>>
  /\ stoppedAt = <<>>

GiftFrame == UNCHANGED <<coreVars, fingerprintVars, generatorVars,
                         normalizeVars, issuedVars, lateVars>>

\* an event reaches a listener of the window
Delivered ==
  [loading EXCEPT !.events = @ + 1,
                  !.lateEvents = IF signalsRef.isTracking THEN @ ELSE @ + 1]

MouseMove ==
  /\ loading.mounted /\ loading.events < MaxEvents
  /\ \E e \in Pointers :
       signalsRef' =
         handleMouseMove(signalsRef, loading.isFirstMove, e[1], e[2])
  /\ loading' = [Delivered EXCEPT
                   !.isFirstMove = IF signalsRef.isTracking THEN FALSE ELSE @]
  /\ UNCHANGED <<completed, stoppedAt>>
  /\ GiftFrame

Click ==
  /\ loading.mounted /\ loading.events < MaxEvents
  /\ signalsRef' = handleClick(signalsRef)
  /\ loading' = Delivered
  /\ UNCHANGED <<completed, stoppedAt>>
  /\ GiftFrame

\* TickMs pass; a callback that is due runs before more time passes
Tick ==
  /\ loading.intervalLeft # 0 \/ ~loading.mounted
  /\ loading.timeout # 0
  /\ signalsRef.isTracking => signalsRef.sinceMove < MaxSince
  /\ signalsRef' =
       IF signalsRef.isTracking
       THEN [signalsRef EXCEPT !.sinceMove = @ + 1]
       ELSE signalsRef
  /\ loading' =
       [loading EXCEPT
          !.intervalLeft = IF loading.mounted THEN @ - 1 ELSE @,
          !.timeout = IF @ = NoTimer THEN @ ELSE @ - 1,
          !.elapsed = IF signalsRef.isTracking THEN @ + 1 ELSE @]
  /\ UNCHANGED <<completed, stoppedAt>>
  /\ GiftFrame

\* the callback of setInterval(..., 100)
IdleTick ==
  /\ loading.mounted /\ loading.intervalLeft = 0
  /\ signalsRef' = idleCheck(signalsRef)
  /\ loading' = [loading EXCEPT !.intervalLeft = IdleIntervalMs \div TickMs]
  /\ UNCHANGED <<completed, stoppedAt>>
  /\ GiftFrame

\* lines 365-371: elapsed reaches loadingDuration
LoadingElapses ==
  /\ loading.mounted /\ ~loading.elapsedFull
  /\ loading' = [loading EXCEPT !.elapsedFull = TRUE]
  /\ UNCHANGED <<signalsRef, completed, stoppedAt>>
  /\ GiftFrame

\* lines 515-536: the frame that finds the loading complete
AnimateComplete ==
  /\ loading.mounted /\ loading.elapsedFull
  /\ ~loading.closure.falseEnding /\ ~loading.closure.isOpening
  /\ signalsRef.isTracking
  /\ signalsRef' = stopTracking(signalsRef)
  /\ loading' = [loading EXCEPT !.falseEnding = TRUE,
                                !.timeout = SuspensionMs \div TickMs]
  /\ stoppedAt' = SignalsOf(signalsRef')
  /\ UNCHANGED completed
  /\ GiftFrame

\* lines 528-535: the suspension ends; the cleanup does not clear it
TimeoutFires ==
  /\ loading.timeout = 0
  /\ loading' = [loading EXCEPT !.isOpening = TRUE, !.timeout = NoTimer]
  /\ completed' = Append(completed, SignalsOf(signalsRef))
  /\ UNCHANGED <<signalsRef, stoppedAt>>
  /\ GiftFrame

\* lines 657-691: onComplete or reducedMotion changed; the effect is
\* cleaned up and set up again, signalsRef is kept
EffectReruns ==
  /\ loading.mounted /\ loading.reruns < MaxReruns
  /\ loading' = [loading EXCEPT
                   !.reruns = @ + 1,
                   !.isFirstMove = TRUE,
                   !.elapsedFull = FALSE,
                   !.closure = [falseEnding |-> loading.falseEnding,
                                isOpening |-> loading.isOpening],
                   !.intervalLeft = IdleIntervalMs \div TickMs]
  /\ UNCHANGED <<signalsRef, completed, stoppedAt>>
  /\ GiftFrame

\* lines 657-661: the instance is unmounted
Unmount ==
  /\ loading.mounted
  /\ loading' = [loading EXCEPT !.mounted = FALSE]
  /\ UNCHANGED <<signalsRef, completed, stoppedAt>>
  /\ GiftFrame

NextGift ==
  \/ MouseMove \/ Click \/ Tick \/ IdleTick
  \/ LoadingElapses \/ AnimateComplete \/ TimeoutFires
  \/ EffectReruns \/ Unmount

SpecGift == InitGift /\ [][NextGift]_vars

\* C20: Signals are produced once and frozen: onComplete is invoked at
\* most once per mounted instance, with the values held when tracking
\* stopped, and no move, click or idle tick after that moment changes them.
SignalsFrozen ==
  /\ Len(completed) <= 1
  /\ stoppedAt # <<>> => SignalsOf(signalsRef) = stoppedAt
  /\ \A i \in 1 .. Len(completed) : completed[i] = stoppedAt

\* onComplete has been called with signals that are not all zero, after
\* an event and an interval tick that came during the suspension
SignalsFrozenWitness ==
  /\ Len(completed) = 1
  /\ completed[1].pixelsMoved > 0
  /\ completed[1].idleMs > 0
  /\ loading.lateEvents > 0

---------------------------------------------------------------------------
\* the positions of candidates that hold the first occurrence of a hash
\* that is not avoided
FirstOccurrences(ch, avoidHashes) ==
  {i \in 1 .. Len(ch) :
     /\ ch[i].hash \notin avoidHashes
     /\ \A j \in 1 .. i - 1 : ch[j].hash # ch[i].hash}

\* the k-th smallest member of a set of positions
KthOf(positions, k) ==
  CHOOSE i \in positions : Cardinality({j \in positions : j <= i}) = k

\* C21: In-batch deduplication: the valid candidates the selector draws
\* from are the first occurrences of the distinct hashes that are not
\* avoided, one entry each, in the order of the original list.
InBatchDeduplication ==
  LET ch == candidateHashes(selArgs.candidates)
      valid == validCandidates(selArgs.candidates, selArgs.avoidHashes)
      firsts == FirstOccurrences(ch, selArgs.avoidHashes)
  IN  /\ Len(valid) = Cardinality(firsts)
      /\ \A k \in 1 .. Len(valid) : valid[k] = ch[KthOf(firsts, k)]
      /\ \A i \in 1 .. Len(selOuts) :
           Len(valid) > 0 =>
             /\ selOuts[i].draws = <<[max |-> Len(valid),
                                      value |-> selOuts[i].draws[1].value]>>
             /\ selOuts[i].kind = "return" =>
                  \E k \in 1 .. Len(valid) :
                    /\ selOuts[i].complimentText = valid[k].text
                    /\ selOuts[i].complimentHash = valid[k].hash

\* a call drew from two valid candidates of a list of three that repeats
\* a hash, and returned one of them
InBatchDeduplicationWitness ==
  /\ Len(selOuts) > 0
  /\ selOuts[1].kind = "return"
  /\ Len(selArgs.candidates) = 3
  /\ Len(validCandidates(selArgs.candidates, selArgs.avoidHashes)) = 2
  /\ selArgs.avoidHashes = {}

---------------------------------------------------------------------------
\* filtering left no valid candidate of a list that is not empty
Exhausted ==
  /\ Len(selArgs.candidates) > 0
  /\ Len(validCandidates(selArgs.candidates, selArgs.avoidHashes)) = 0

\* the draws of a call that picked a candidate whose hash is not avoided
PassingDraws(out) ==
  {d \in 1 .. Len(out.draws) :
     /\ InBounds(out.draws[d].value, Len(selArgs.candidates))
     /\ candidateHashes(selArgs.candidates)[ToNat(out.draws[d].value) + 1].hash
          \notin selArgs.avoidHashes}

\* C22: Bounded retry and last resort: with no valid candidate the call
\* draws nextInt(len(candidates)) over the original list at most
\* min(len(candidates), 50) times, returns the first drawn candidate that
\* is not avoided, and otherwise the normalized first candidate.
BoundedRetry ==
  \A i \in 1 .. Len(selOuts) :
    Exhausted =>
      LET out == selOuts[i]
          n == Len(selArgs.candidates)
          ch == candidateHashes(selArgs.candidates)
      IN  /\ Len(out.draws) <= Min(n, RetryCap)
          /\ \A d \in 1 .. Len(out.draws) : out.draws[d].max = n
          /\ out.kind = "return"
          /\ IF PassingDraws(out) = {}
             THEN /\ Len(out.draws) = Min(n, RetryCap)
                  /\ out.complimentText = ch[1].text
                  /\ out.complimentHash = ch[1].hash
             ELSE /\ PassingDraws(out) = {Len(out.draws)}
                  /\ out.complimentHash =
                       ch[ToNat(out.draws[Len(out.draws)].value) + 1].hash

---------------------------------------------------------------------------
\* seed + k * 0x9e3779b97f4a7c15 as base-256 digits, least significant
\* first, not reduced modulo 2^64
RECURSIVE PlusTimes(_, _, _, _)
PlusTimes(seed, k, i, carry) ==
  IF i > 8 THEN CarryDigits(carry)
  ELSE LET sum == seed[i] + k * Gamma[i] + carry
       IN  <<sum % 256>> \o PlusTimes(seed, k, i + 1, sum \div 256)

\* (seed + k * 0x9e3779b97f4a7c15) mod 2^64
SeedPlus(seed, k) == SubSeq(PlusTimes(seed, k, 1, 0), 1, 8)

\* state is an integer in [0, 2^64)
IsUint64(state) == Len(state) = 8 /\ \A i \in 1 .. 8 : state[i] \in Byte

\* a call on the normal path of the selector, seeded with seed, makes one
\* draw and leaves the generator one advance after the seed
OneDrawSelection(h) ==
  \A candidates \in SeqsUpTo(RawTexts, MaxCandidates), avoid \in AvoidSets :
    Len(validCandidates(candidates, avoid)) > 0 =>
      \E out \in {selectComplimentFromCandidates(h, candidates, avoid)} :
        /\ Len(out.draws) = 1
        /\ out.rng = SeedPlus(hashToSeed(h), 1)

\* a draw advances the state once
AdvancesOnce ==
  /\ drawCount' = drawCount + 1
  /\ prng' = SeedPlus(prng, 1)
  /\ IsUint64(prng')

\* C23: One state advance per draw: the state is an integer in [0, 2^64),
\* each next(), nextInt() or nextDouble() adds 0x9E3779B97F4A7C15 modulo
\* 2^64 exactly once, so after k draws from seed s the state is
\* (s + k * 0x9E3779B97F4A7C15) mod 2^64; the normal selection path
\* consumes one draw.
OneAdvancePerDraw ==
  /\ [](/\ IsUint64(prng)
        /\ \E h \in FingerprintHashes :
             /\ prng = SeedPlus(hashToSeed(h), drawCount)
             /\ drawCount = 0 => OneDrawSelection(h))
  /\ [][AdvancesOnce]_vars

\* draws of all three kinds have been made and the sum has passed 2^64
OneAdvancePerDrawWitness ==
  /\ drawCount = MaxDraws
  /\ lastDraw.op = "nextDouble"
  /\ \E h \in FingerprintHashes :
       /\ prng = SeedPlus(hashToSeed(h), drawCount)
       /\ Len(PlusTimes(hashToSeed(h), drawCount, 1, 0)) > 8

---------------------------------------------------------------------------
\* SpecTemplate: the template-generation route (unnamed/part_008, POST)
\* answering one valid request.  The key of each generation is the digest
\* of a fingerprint with a fresh nonce, an input of the step.

maxAttempts == 10

\* digests the nonces of one request lead to
TemplateKeys == {HashScenarioA, HashDrawZero, HashDrawHalf}

\* the compliment composed of the four phrases; the punctuation step
\* replaces every '.' by '.'
TemplateText(phrases) == phrases

\* what the route can generate for the signals (m, c, i)
TemplateHashes(m, c, i) ==
  {hashString(TemplateText(generateCompliment(k, m, c, i))) :
     k \in TemplateKeys}

NoTemplate ==
  [pc |-> "idle", m |-> 0, c |-> 0, i |-> 0, avoidHashes |-> {},
   attempts |-> 0, nonce |-> "none", fallbacks |-> 0,
   complimentHash |-> hashString(NotRun), id |-> hashString(NotRun)]

InitTemplate ==
  /\ CoreIdle /\ FingerprintIdle /\ GeneratorIdle /\ NormalizeIdle
  /\ IssuedIdle /\ GiftIdle /\ ReflectionIdle
  /\ template = NoTemplate

TemplateFrame == UNCHANGED <<coreVars, fingerprintVars, generatorVars,
                             normalizeVars, issuedVars, giftVars,
                             reflection>>

\* lines 215-266: a valid request with its signals and avoidHashes
ReceiveTemplate ==
  /\ template.pc = "idle"
  /\ \E m \in 0 .. MaxLevel, c \in 0 .. MaxLevel, i \in 0 .. MaxLevel :
       \E avoid \in SUBSET TemplateHashes(m, c, i) :
         template' = [NoTemplate EXCEPT !.pc = "generate", !.m = m, !.c = c,
                                        !.i = i, !.avoidHashes = avoid]
  /\ TemplateFrame

\* while (avoidHashes.includes(complimentHash) && attempts < maxAttempts)
RetryCondition(t) ==
  t.complimentHash \in t.avoidHashes /\ t.attempts < maxAttempts

\* lines 276-290: one pass of the do-while loop
GenerateAttempt ==
  /\ template.pc = "generate"
  /\ \E currentKey \in TemplateKeys :
       LET text == TemplateText(generateCompliment(currentKey, template.m,
                                                   template.c, template.i))
           after == [template EXCEPT
                       !.nonce = IF template.attempts > 0
                                 THEN "sessionNonce-retry-N"
                                 ELSE "sessionNonce",
                       !.complimentHash = hashString(text),
                       !.attempts = @ + 1]
       IN  template' = [after EXCEPT
                          !.pc = IF RetryCondition(after) THEN "generate"
                                 ELSE "afterLoop"]
  /\ TemplateFrame

\* lines 293-304: the fallback generation; its tiny variation of
\* pixelsMoved is below the resolution of the signal levels
GenerateFallback ==
  /\ template.pc = "afterLoop"
  /\ template.complimentHash \in template.avoidHashes
  /\ template.attempts >= maxAttempts
  /\ \E fallbackKey \in TemplateKeys :
       template' =
         [template EXCEPT
            !.nonce = "sessionNonce-fallback-now",
            !.fallbacks = @ + 1,
            !.complimentHash =
              hashString(TemplateText(generateCompliment(fallbackKey,
                           template.m, template.c, template.i))),
            !.pc = "respond"]
  /\ TemplateFrame

\* lines 293, 306-325: no fallback generation is needed
SkipFallback ==
  /\ template.pc = "afterLoop"
  /\ ~(template.complimentHash \in template.avoidHashes
         /\ template.attempts >= maxAttempts)
  /\ template' = [template EXCEPT !.pc = "respond"]
  /\ TemplateFrame

\* lines 320-324
RespondTemplate ==
  /\ template.pc = "respond"
  /\ template' = [template EXCEPT !.pc = "done",
                                  !.id = template.complimentHash]
  /\ TemplateFrame

NextTemplate ==
  \/ ReceiveTemplate \/ GenerateAttempt \/ GenerateFallback
  \/ SkipFallback \/ RespondTemplate

SpecTemplate == InitTemplate /\ [][NextTemplate]_vars

\* C24: Template-route uniqueness retry: the route regenerates with the
\* nonce suffixed "-retry-N" while the generated hash is in avoidHashes,
\* makes at most 10 such generations and then at most one fallback
\* generation, and the id it returns is not a member of avoidHashes.
UniquenessRetry ==
  /\ template.attempts <= maxAttempts
  /\ template.fallbacks <= 1
  /\ (template.pc = "generate" /\ template.attempts > 0)
       => template.complimentHash \in template.avoidHashes
  /\ template.pc = "done" => template.id \notin template.avoidHashes

---------------------------------------------------------------------------
\* the number of fetchFn calls made for a slot
CallsFor(slot) == Cardinality({k \in 1 .. Len(calls) : calls[k] = slot})

\* C25: Each slot fetched exactly once: in a run with concurrency >= 1,
\* under every interleaving, each slot 0 .. count - 1 is claimed by one
\* worker and fetchFn is called count times in all; no slot is fetched
\* twice and none is skipped, whichever requests fail.
EachSlotOnce ==
  poolArgs.concurrency >= 1 =>
    /\ \A k \in 1 .. Len(calls) : calls[k] \in 0 .. poolArgs.count - 1
    /\ \A slot \in 0 .. poolArgs.count - 1 : CallsFor(slot) <= 1
    /\ Len(calls) = index
    /\ poolReturn.state = "resolved" =>
         /\ Len(calls) = poolArgs.count
         /\ \A slot \in 0 .. poolArgs.count - 1 : CallsFor(slot) = 1

\* a run of two workers over more slots than workers has resolved, with
\* failed and successful requests
EachSlotOnceWitness ==
  /\ poolReturn.state = "resolved"
  /\ poolArgs.concurrency = 2
  /\ poolArgs.count = MaxCount
  /\ errors > 0
  /\ Len(poolReturn.value) > 1

---------------------------------------------------------------------------
\* C26: Termination of fetchPool: if every fetchFn call settles, fetchPool
\* resolves in the end, for every count >= 0 and every concurrency, zero
\* slots and a concurrency of zero or less included.
PoolTerminates ==
  (poolReturn.state = "pending") ~> (poolReturn.state = "resolved")

\* a call for some slots with a concurrency below one has resolved
PoolTerminatesWitness ==
  /\ poolReturn.state = "resolved"
  /\ poolArgs.count > 0
  /\ poolArgs.concurrency < 1

---------------------------------------------------------------------------
\* C27: The exhaustion retry cannot succeed: when no candidate is valid,
\* every candidate's hash is in avoidHashes, so no retry draw passes the
\* avoid check, and a result that is returned is the normalized first
\* candidate of the original list, whatever the seed.
RetryNeverSucceeds ==
  Exhausted =>
    /\ \A k \in 1 .. Len(selArgs.candidates) :
         candidateHashes(selArgs.candidates)[k].hash \in selArgs.avoidHashes
    /\ \A i \in 1 .. Len(selOuts) :
         /\ PassingDraws(selOuts[i]) = {}
         /\ selOuts[i].kind = "return" =>
              /\ selOuts[i].complimentText =
                   candidateHashes(selArgs.candidates)[1].text
              /\ selOuts[i].complimentHash =
                   candidateHashes(selArgs.candidates)[1].hash

\* a call with no valid candidate out of two different ones has made its
\* retry draws and returned
RetryNeverSucceedsWitness ==
  /\ Exhausted
  /\ Len(selOuts) > 0
  /\ selOuts[1].kind = "return"
  /\ Len(selOuts[1].draws) = 2
  /\ candidateHashes(selArgs.candidates)[1].hash
       # candidateHashes(selArgs.candidates)[2].hash

\* C30: Idle time is not over-counted: the idleMs handed to onComplete is at
\* most the time that passed between the mount and the moment the tracking
\* stopped, whatever moves, clicks and idle ticks came in between.
IdleNotOverCounted ==
  \A k \in 1 .. Len(completed) :
    completed[k].idleMs <= loading.elapsed * TickMs

----------------------------------------------------------------------------
\* generateBehaviorReflection (README.md lines 182-262)

\* Bound: the signals are drawn from a grid of MaxSignal + 1 values per axis
MaxSignal == 9

\* pixelsMoved and idleMs in steps of 500, clicks in steps of 1
SignalTriples ==
  {[pixelsMoved |-> 500 * p, clicks |-> c, idleMs |-> 500 * i] :
     p \in 0 .. MaxSignal, c \in 0 .. MaxSignal, i \in 0 .. MaxSignal}

\* a quotient n / d, compared exactly
Level(n, d) == [num |-> n, den |-> d]
Greater(a, b) == a.num * b.den > b.num * a.den

movementLevel(sig) == Level(sig.pixelsMoved, 5000)
clickLevel(sig) == Level(sig.clicks, 10)
idleLevel(sig) == Level(sig.idleMs, 5000)

\* lines 198-204
MovementPatterns(sig) ==
  IF Greater(movementLevel(sig), Level(7, 10)) THEN {"explored"}
  ELSE IF Greater(movementLevel(sig), Level(3, 10)) THEN {"wandered"}
  ELSE IF Greater(Level(1, 10), movementLevel(sig)) THEN {"still"}
  ELSE {}

\* lines 207-213
ClickPatterns(sig) ==
  IF Greater(clickLevel(sig), Level(8, 10)) THEN {"eager"}
  ELSE IF Greater(clickLevel(sig), Level(4, 10)) THEN {"curious"}
  ELSE IF Greater(Level(1, 10), clickLevel(sig)) /\ sig.clicks = 0
       THEN {"patient"}
  ELSE {}

\* lines 216-222
IdlePatterns(sig) ==
  IF Greater(idleLevel(sig), Level(6, 10)) THEN {"slowly"}
  ELSE IF Greater(idleLevel(sig), Level(3, 10)) THEN {"carefully"}
  ELSE IF Greater(Level(1, 10), idleLevel(sig)) THEN {"quickly"}
  ELSE {}

patterns(sig) ==
  MovementPatterns(sig) \cup ClickPatterns(sig)
    \cup IdlePatterns(sig)

\* lines 225-260: the first rule that matches names the caption
generateBehaviorReflection(sig) ==
  LET ps == patterns(sig)
      m == movementLevel(sig)
      c == clickLevel(sig)
      i == idleLevel(sig)
  IN  IF "still" \in ps /\ "patient" \in ps THEN "Opened with stillness."
      ELSE IF "explored" \in ps /\ "eager" \in ps
        THEN "Unwrapped with curiosity."
      ELSE IF "slowly" \in ps /\ "carefully" \in ps THEN "Wrapped slowly."
      ELSE IF "quickly" \in ps /\ "eager" \in ps THEN "Opened all at once."
      ELSE IF "wandered" \in ps /\ "curious" \in ps
        THEN "Unwrapped with wonder."
      ELSE IF "patient" \in ps /\ "eager" \notin ps
        THEN "You did not rush this."
      ELSE IF "still" \in ps /\ "carefully" \in ps
        THEN "Opened with intention."
      ELSE IF "explored" \in ps /\ "slowly" \in ps
        THEN "Unwrapped gradually."
      ELSE IF Greater(i, m) /\ Greater(i, c) THEN "Opened with patience."
      ELSE IF Greater(c, m) /\ Greater(c, i)
        THEN "Unwrapped with anticipation."
      ELSE IF Greater(m, c) /\ Greater(m, i) THEN "Opened while moving."
      ELSE "Opened just now."

\* the captions of the rule table and of the default fallbacks
Captions ==
  {"Opened with stillness.", "Unwrapped with curiosity.", "Wrapped slowly.",
   "Opened all at once.", "Unwrapped with wonder.", "You did not rush this.",
   "Opened with intention.", "Unwrapped gradually.", "Opened with patience.",
   "Unwrapped with anticipation.", "Opened while moving.",
   "Opened just now."}

NoCaption == "not called"

InitReflection ==
  /\ CoreIdle /\ FingerprintIdle /\ GeneratorIdle /\ NormalizeIdle
  /\ IssuedIdle /\ GiftIdle /\ TemplateIdle
  /\ \E s \in SignalTriples : reflection = [signals |-> s, caption |-> NoCaption]

\* one call of generateBehaviorReflection(signals)
Reflect ==
  /\ reflection.caption = NoCaption
  /\ reflection' =
       [reflection EXCEPT !.caption = generateBehaviorReflection(reflection.signals)]
  /\ UNCHANGED <<coreVars, fingerprintVars, generatorVars, normalizeVars,
                 issuedVars, giftVars, template>>

NextReflection == Reflect

SpecReflection == InitReflection /\ [][NextReflection]_vars

\* the triples for which generateBehaviorReflection returns the caption
TriplesOf(caption) ==
  {s \in SignalTriples : generateBehaviorReflection(s) = caption}

\* C29: Reachability of rule-based captions: every call returns one of the
\* fixed captions, and every caption of the rule table (with 'Wrapped
\* slowly.' and 'Opened all at once.') is returned for some triple of
\* non-negative signals.
CaptionsReachable ==
  reflection.caption # NoCaption =>
    /\ reflection.caption \in Captions
    /\ \A caption \in Captions : TriplesOf(caption) # {}

============================================================================
